---- MODULE Spec2Model ----
(***************************************************************************)
(* A model of mcfg's installer execution engine: the installer registry    *)
(* (shared/installer.rs), the package repository (shared/packages.rs) and  *)
(* the orchestrator InstallerRegistry::execute with the history log        *)
(* (shared/install_log.rs).                                                *)
(***************************************************************************)
EXTENDS Naturals, Sequences, FiniteSets, TLC

VARIABLES
    current,        \* Platform::CURRENT of the build
    registry_file,  \* the installers parsed from installers.yml (Vec<Installer>)
    registry,       \* InstallerRegistry.installers: (Platform, PackageKind) -> Installer
    repository,     \* PackageRepository.package_set_groups
    action,         \* the InstallActionKind passed to execute
    group_filter,   \* package_set_group_name: Option<Name>
    set_filter,     \* package_set_name: Option<Name>
    repository_dir, \* the repository directory as read_dir lists it
    pc,             \* the statement the run is at
    groups_todo,    \* the groups execute has still to visit
    sets_todo,      \* the package sets execute_package_set_group has still to visit
    group,          \* the group being executed
    package_set,    \* the package set being executed
    packages_todo,  \* the packages the loop of lines 372-389 has still to process
    links_todo,     \* the link-files pairs the loop of lines 420-430 has still to process
    result,         \* "running", "Ok" or the ErrorKind execute returned
    log_db,         \* the rows of the table `installed`, in insertion order
    executed,       \* every command handed to the shell, in order, with its outcome
    fs_ops,         \* every symlink / remove_file call that succeeded, in order
    phases,         \* the phases that did something, in order, as [visit, phase]
    visited,        \* the calls of execute_package_set, in order, as [group, package_set]
    warnings,       \* the warn! messages of execute, in order
    reported_done,  \* whether the final "Done." report was emitted
    log_file,       \* whether the history store install-log.sql exists
    installed,      \* the rows of the table `installed` with their date_time, by rowid
    call,           \* a function called on its own, with its arguments
    returned,       \* what that call returned: no element before, one after
    reporter        \* IS_INTERACTIVE, the frames of the reporter's functions on the
                    \* stack, and what they wrote

vars == <<current, registry_file, registry, repository_dir, repository, action,
          group_filter, set_filter, warnings, pc, groups_todo, sets_todo, group, package_set,
          packages_todo, links_todo, result, log_db, executed, fs_ops, phases,
          visited, reported_done, log_file, installed, call, returned, reporter>>

----------------------------------------------------------------------------
(* Bounds of the model *)

MaxInstallers == 2
MaxPackages == 2
MaxLinkFiles == 1
MaxScripts == 1
MaxGroups == 2
MaxSets == 2

----------------------------------------------------------------------------
(* Values *)

\* Option::None
None == "none"

\* enum Platform
Platforms == {"macos", "linux"}

\* enum PackageKind (Language(Name) is one more value of the same kind of key)
PackageKinds == {"default", "application"}

\* enum InstallActionKind, by its Display form
InstallActionKinds == {"install", "update", "uninstall", "link"}

\* Name values, in the order of the derived Ord of Name (String order)
NameOrder == <<"a", "b", "c">>

Names == {NameOrder[i] : i \in DOMAIN NameOrder}

NameRank(n) == CHOOSE i \in DOMAIN NameOrder : NameOrder[i] = n

\* The outcomes of handing a command to the shell: exit status zero, a
\* non-zero exit status, or the program could not be launched.
CommandOutcomes == {"zero", "nonzero", "launch_failed"}

\* Paths that exist on the file system when the registry is loaded
ExistingPaths == {"/bin/present"}

IfExistsPaths == {"/bin/present", "/bin/absent"}

----------------------------------------------------------------------------
(* Sequences *)

Last(s) == s[Len(s)]

IsPrefix(s, t) == Len(s) <= Len(t) /\ SubSeq(t, 1, Len(s)) = s

Range(s) == {s[i] : i \in DOMAIN s}

SeqsUpTo(S, n) == UNION {[1..k -> S] : k \in 0..n}

RECURSIVE Flatten(_)
Flatten(ss) == IF ss = <<>> THEN <<>> ELSE Head(ss) \o Flatten(Tail(ss))

\* Vec::sort_by_key on the name: a stable sort
RECURSIVE SortByName(_)
SortByName(s) ==
    IF Len(s) <= 1 THEN s
    ELSE LET sorted == SortByName(SubSeq(s, 1, Len(s) - 1))
             x == Last(s)
             before == SelectSeq(sorted, LAMBDA y : NameRank(y.name) <= NameRank(x.name))
             after == SelectSeq(sorted, LAMBDA y : NameRank(y.name) > NameRank(x.name))
         IN before \o <<x>> \o after

----------------------------------------------------------------------------
(* Platform *)

\* Platform::default
PlatformDefault == current

\* a match that wants the constraint itself to be the platform
IsMatchExplicitOnly(self, other) == self = other

\* Platform::is_match
IsMatch(self, other) == self = (IF other = None THEN PlatformDefault ELSE other)

----------------------------------------------------------------------------
(* Name (shared/mod.rs); a string is the sequence of its characters *)

\* characters for which char::is_alphanumeric holds
Alphanumerics == {"a", "Z", "9"}

\* NAME_SPECIAL_CHARS
NameSpecialChars == {".", "+", "-", "_", "@", "/"}

\* a check that lets the empty string through
NameIsValidOrEmpty(s) ==
    \A k \in DOMAIN s : s[k] \in Alphanumerics \cup NameSpecialChars

\* Name::is_valid
NameIsValid(s) ==
    /\ s # <<>>
    /\ \A k \in DOMAIN s : s[k] \in Alphanumerics \cup NameSpecialChars

\* impl FromStr for Name: the string is wrapped as it is, or refused
NameFromStr(s) ==
    IF NameIsValid(s) THEN [kind |-> "Ok", value |-> [inner |-> s]]
    ELSE [kind |-> "InvalidNameString", value |-> s]

\* impl Display for Name: the wrapped string
NameToString(name) == name.inner

----------------------------------------------------------------------------
(* Installer and InstallerRegistry *)

\* Installer::is_platform_match
InstallerIsPlatformMatch(i) == IsMatch(current, i.platform)

\* Installer::if_exists_match
IfExistsMatch(i) == i.if_exists = None \/ i.if_exists \in ExistingPaths

\* the key computed in From<Vec<Installer>>
RegistryKey(i) == <<IF i.platform = None THEN "macos" ELSE i.platform, i.kind>>

\* impl From<Vec<Installer>> for InstallerRegistry: insert in order, a later
\* entry overwrites an earlier one with the same key
RegistryFrom(installers) ==
    LET keys == {RegistryKey(installers[i]) : i \in DOMAIN installers}
        last(k) == CHOOSE i \in DOMAIN installers :
                      /\ RegistryKey(installers[i]) = k
                      /\ \A j \in DOMAIN installers :
                            RegistryKey(installers[j]) = k => j <= i
    IN [k \in keys |-> installers[last(k)]]

\* the message logged by From<Vec<Installer>> when insert returns Some
DuplicateKeyMessage == "key is a duplicate, previous value was overwritten"

\* the level From<Vec<Installer>> logs that message at (the debug! of lines 205-209)
DuplicateKeyLevel == "debug"

\* the lines From<Vec<Installer>> logs about duplicates: one for every installer
\* whose key an earlier installer of the list has
RegistryFromLog(installers) ==
    LET dup == SelectSeq([i \in DOMAIN installers |-> i],
                         LAMBDA i : \E j \in 1..(i - 1) :
                                       RegistryKey(installers[j]) = RegistryKey(installers[i]))
    IN [k \in DOMAIN dup |-> [level |-> DuplicateKeyLevel, message |-> DuplicateKeyMessage]]

\* the messages among the log lines that are warnings
WarningsOf(lines) ==
    LET w == SelectSeq(lines, LAMBDA l : l.level = "warn")
    IN [k \in DOMAIN w |-> w[k].message]

\* a partition that forgets the if_exists guard
KeepInstallerPlatformOnly(i) == InstallerIsPlatformMatch(i)

\* the partition of InstallerRegistry::open_from: the installers kept
KeepInstaller(i) == InstallerIsPlatformMatch(i) /\ IfExistsMatch(i)

\* InstallerRegistry::open_from, from the parsed document on
OpenFrom(installers) == RegistryFrom(SelectSeq(installers, KeepInstaller))

\* InstallerRegistry::installer_for: is there an entry for the key
HasInstallerFor(platform, kind) == <<platform, kind>> \in DOMAIN registry

\* InstallerRegistry::installer_for: the entry
InstallerFor(platform, kind) == registry[<<platform, kind>>]

\* InstallerRegistry::installers
RegistryInstallers == {registry[k] : k \in DOMAIN registry}

----------------------------------------------------------------------------
(* Package and PackageSet *)

\* Package::is_platform_match
PackageIsPlatformMatch(p) == IsMatch(current, p.platform)

\* Package::platform
PackagePlatform(p) == IF p.platform = None THEN PlatformDefault ELSE p.platform

\* PackageSet::packages is Some
HasPackages(ps) == ps.actions.shape = "packages"

\* PackageSet::scripts is Some
HasScripts(ps) == ps.actions.shape = "scripts"

\* PackageSet::link_file_paths: the pairs (self.path.join(src), PathBuf::from(tgt))
LinkFilePaths(ps) ==
    {<<[in |-> "repository", set |-> ps.name, file |-> lf.src],
       [in |-> "target", set |-> ps.name, file |-> lf.tgt]>> : lf \in ps.link_files}

\* the link path computed for the env-file in execute_package_set
EnvFileLink(ps) == [in |-> "set_dir", set |-> ps.name, file |-> ps.env_file]

\* PackageSet::env_file_path
EnvFilePath(ps) == [in |-> "declared", set |-> ps.name, file |-> ps.env_file]

----------------------------------------------------------------------------
(* PackageRepository *)

\* a read that keeps the sets in the order the directory lists them
PackageSetGroupReadUnsorted(dir) ==
    [name |-> dir.name, package_sets |-> dir.package_sets]

\* impl Readable for PackageSetGroup: the sets found, sorted by name
PackageSetGroupRead(dir) ==
    [name |-> dir.name, package_sets |-> SortByName(dir.package_sets)]

\* PackageRepository::open_from: the groups found, sorted by name
RepositoryOpenFrom(dirs) ==
    SortByName([i \in DOMAIN dirs |-> PackageSetGroupRead(dirs[i])])

\* PackageRepository::group and PackageSetGroup::package_set: Iterator::find,
\* the first element with the name, as a sequence of zero or one element
FindByName(s, name) ==
    LET hits == SelectSeq(s, LAMBDA x : x.name = name)
    IN IF hits = <<>> THEN <<>> ELSE <<Head(hits)>>

----------------------------------------------------------------------------
(* Variable substitution (shared/env.rs) *)

\* A string is the sequence of its pieces: a brace, a space, or a run of
\* characters of the class [a-zA-Z0-9\-_:] of the regex VARIABLES, such as x or
\* package_name.
IsNameChar(c) == c \notin {"{", "}", " "}

\* the length of the longest run of name characters s begins with
RECURSIVE NameRun(_)
NameRun(s) ==
    IF s # <<>> /\ IsNameChar(Head(s)) THEN 1 + NameRun(Tail(s)) ELSE 0

\* the length of the match of VARIABLES, \{\{[a-zA-Z0-9\-_:]+\}\}, at the start
\* of s, or 0 when it does not match there
MatchAtStart(s) ==
    IF Len(s) >= 5 /\ s[1] = "{" /\ s[2] = "{"
    THEN LET n == NameRun(SubSeq(s, 3, Len(s)))
         IN IF n >= 1 /\ Len(s) >= n + 4 /\ s[n + 3] = "}" /\ s[n + 4] = "}"
            THEN n + 4
            ELSE 0
    ELSE 0

\* a substitution that scans the value it has put in again
RECURSIVE VarStringReplaceRescanning(_, _)
VarStringReplaceRescanning(string, replacements) ==
    IF string = <<>> THEN <<>>
    ELSE IF MatchAtStart(string) = 0
    THEN <<Head(string)>> \o VarStringReplaceRescanning(Tail(string), replacements)
    ELSE LET end == MatchAtStart(string)
             var_name == SubSeq(string, 3, end - 2)
             rest == SubSeq(string, end + 1, Len(string))
         IN IF var_name \in DOMAIN replacements
            THEN VarStringReplaceRescanning(replacements[var_name] \o rest, replacements)
            ELSE var_name \o VarStringReplaceRescanning(rest, replacements)

\* var_string_replace: captures_iter yields the leftmost matches one after the
\* other; the text before a match is copied, the match is replaced by the
\* value of its name or by the name, and the scan goes on after the match
RECURSIVE VarStringReplace(_, _)
VarStringReplace(string, replacements) ==
    IF string = <<>> THEN <<>>
    ELSE IF MatchAtStart(string) = 0
    THEN <<Head(string)>> \o VarStringReplace(Tail(string), replacements)
    ELSE LET end == MatchAtStart(string)
             var_name == SubSeq(string, 3, end - 2)
             rest == SubSeq(string, end + 1, Len(string))
         IN (IF var_name \in DOMAIN replacements
             THEN replacements[var_name]
             ELSE var_name) \o VarStringReplace(rest, replacements)

\* default_vars: the built-in variables
DefaultVars ==
    (<<"home">> :> <<"home_dir">>) @@ (<<"command_log_level">> :> <<"info">>) @@
    (<<"command_shell">> :> <<"sh">>) @@ (<<"local_download_path">> :> <<"downloads">>) @@
    (<<"platform">> :> <<current>>) @@ (<<"platform_family">> :> <<"unix">>) @@
    (<<"platform_os">> :> <<current>>) @@ (<<"platform_arch">> :> <<"arch">>) @@
    (<<"repo_config_path">> :> <<"config">>) @@ (<<"repo_local_path">> :> <<"local">>)

\* add_action_vars
AddActionVars(default_vars) == (<<"command_action">> :> <<action>>) @@ default_vars

\* add_package_set_action_vars
AddPackageSetActionVars(ps, action_vars) ==
    (<<"package_set_name">> :> <<ps.name>>) @@
    (<<"package_set_file">> :> <<"package-set.yml">>) @@
    (<<"package_set_path">> :> <<ps.name>>) @@ action_vars

\* add_package_action_vars: a copy of the map with the variables of the package
AddPackageActionVars(package_name, package_set_vars) ==
    (<<"package_name">> :> <<package_name>>) @@
    (<<"package_config_path">> :> <<package_name>>) @@
    (<<"package_data_local_path">> :> <<package_name>>) @@
    (<<"package_log_path">> :> <<package_name>>) @@ package_set_vars

\* execute_package_set, lines 360-363: the variables of the set, extended with
\* its env-vars as they are declared
PackageSetVars(ps) ==
    ps.env_vars @@ AddPackageSetActionVars(ps, AddActionVars(DefaultVars))

\* HashMap::remove
Remove(map, key) == [k \in DOMAIN map \ {key} |-> map[k]]

\* a run-after script that gets the variables of the set as they are
RunAfterVarsUntouched(ps) == PackageSetVars(ps)

\* execute_package_set, line 433: the variables the run-after script gets
RunAfterVars(ps) == Remove(PackageSetVars(ps), <<"package_name">>)

----------------------------------------------------------------------------
(* Command execution *)

\* the error a failed std::fs or std::process call is converted to
IoError == "Io"

\* Token::plain, Token::string, Token::variable, Token::special
Token(kind, value) == [kind |-> kind, value |-> value]

\* impl Display for Token
TokenToString(t) ==
    IF t.kind = "String" THEN "'" \o t.value \o "'"
    ELSE IF t.kind = "Variable" THEN "{{" \o t.value \o "}}"
    ELSE t.value

\* impl Display for Tokens: the tokens' forms joined by one space
RECURSIVE TokensToString(_)
TokensToString(ts) ==
    IF ts = <<>> THEN ""
    ELSE IF Len(ts) = 1 THEN TokenToString(ts[1])
    ELSE TokenToString(ts[1]) \o " " \o TokensToString(Tail(ts))

\* Tokens::replace_variables: a Variable token whose name the map has becomes
\* a Plain token with the value; the other tokens stay as they are
ReplaceVariables(ts, replacements) ==
    [k \in DOMAIN ts |->
        IF ts[k].kind = "Variable" /\ ts[k].value \in DOMAIN replacements
        THEN Token("Plain", replacements[ts[k].value])
        ELSE ts[k]]

\* Tokens::execute_command, line 162: a pipe or a redirect is among the tokens
HasSpecial(ts) == \E k \in DOMAIN ts : ts[k].kind = "Special"

\* Tokens::execute_command, line 165: the unwrap of get("shell") on None
ExecuteCommandPanics(ts, replacements) ==
    HasSpecial(ReplaceVariables(ts, replacements)) /\ "shell" \notin DOMAIN replacements

\* Tokens::execute_command, lines 160-169: the tokens the process is built from
CommandLine(ts, replacements) ==
    IF HasSpecial(ReplaceVariables(ts, replacements))
    THEN <<Token("Plain", replacements["shell"]), Token("Plain", "-c"),
           Token("Plain", TokensToString(ReplaceVariables(ts, replacements)))>>
    ELSE ReplaceVariables(ts, replacements)

\* Tokens::execute_command, lines 191-196: Command::new(first.to_string()) with
\* the values of the other tokens as its arguments
Spawn(line, outcome) ==
    [program |-> TokenToString(Head(line)),
     args |-> [k \in 1..(Len(line) - 1) |-> line[k + 1].value],
     outcome |-> outcome]

\* Tokens::execute_command, lines 199-225: the Result by the outcome of output()
ExecuteCommandResult(outcome) ==
    IF outcome = "zero" THEN [kind |-> "Ok"]
    ELSE IF outcome = "nonzero" THEN [kind |-> "InstallerCommandFailed"]
    ELSE [kind |-> IoError]

\* SystemEditor::edit: the Result by the outcome of status()
EditResult(editor, outcome) ==
    IF outcome = "zero" THEN [kind |-> "Ok"]
    ELSE [kind |-> "CommandExecutionFailed", program |-> editor,
          exit_status |-> IF outcome = "launch_failed" THEN None ELSE outcome]

\* execute_shell_command: Ok on exit status zero, an error otherwise
ExecuteShellCommand(outcome) ==
    IF outcome = "zero" THEN "Ok" ELSE "CommandExecutionFailed"

\* Installer::package_action: whether the installer's command is executed
PackageActionExecutes(i, p) ==
    /\ InstallerIsPlatformMatch(i) /\ PackageIsPlatformMatch(p)
    /\ i.kind = p.kind
    /\ action \in i.commands

\* a package_action without the check of the kinds
PackageActionAnyKind(i, p, outcome) ==
    IF InstallerIsPlatformMatch(i) /\ PackageIsPlatformMatch(p)
    THEN IF action \in i.commands THEN ExecuteShellCommand(outcome) ELSE "Ok"
    ELSE "Ok"

\* Installer::package_action: the Result returned
PackageAction(i, p, outcome) ==
    IF InstallerIsPlatformMatch(i) /\ PackageIsPlatformMatch(p)
    THEN IF i.kind = p.kind
         THEN IF action \in i.commands THEN ExecuteShellCommand(outcome) ELSE "Ok"
         ELSE "WrongInstallerForKind"
    ELSE "Ok"

----------------------------------------------------------------------------
(* InstallerRegistry::execute *)

\* the index of the current call of execute_package_set
Visit == Len(visited)

\* a group filter that falls back to every group when it names none
GroupsToVisitOrAll ==
    IF group_filter # None /\ FindByName(repository, group_filter) # <<>>
    THEN FindByName(repository, group_filter)
    ELSE repository

\* the groups execute visits (lines 289-313)
GroupsToVisit ==
    IF group_filter # None THEN FindByName(repository, group_filter) ELSE repository

\* the sets execute_package_set_group visits (lines 331-342)
SetsToVisit(g) ==
    IF set_filter # None THEN FindByName(g.package_sets, set_filter) ELSE g.package_sets

\* an order with the run-after script ahead of the env-file and the link-files
PhaseOrderRunAfterEarly ==
    <<"run_before", "packages", "scripts", "run_after", "env_file", "link_files",
      "return">>

\* the statements of execute_package_set, in the order of the function body
PhaseOrder ==
    <<"run_before", "packages", "scripts", "env_file", "link_files", "run_after",
      "return">>

\* the statement after `phase`
AfterPhase(phase) ==
    PhaseOrder[(CHOOSE k \in DOMAIN PhaseOrder : PhaseOrder[k] = phase) + 1]

\* a record with the package and the installer names exchanged
InstalledPackageSwapped(i, p) ==
    [group |-> group.name, set |-> package_set.name, package |-> i.name,
     installer |-> p.name]

\* the record execute_package_set hands to log_installed_package
InstalledPackage(i, p) ==
    [group |-> group.name, set |-> package_set.name, package |-> p.name,
     installer |-> i.name]

\* the outcomes of the INSERT made by log_installed_package
LogOutcomes == {"ok", "error"}

\* the error a failed INSERT is converted to
SqlError == "Sql"

\* a lookup that takes any script of the set
ScriptForAnyAction(ps) == HasScripts(ps) /\ ps.actions.scripts # {}

\* scripts.get(action) is Some, for a script-shaped set
ScriptFor(ps) == HasScripts(ps) /\ action \in ps.actions.scripts

\* the match on the action in the env-file and link-files phases: the file
\* system calls made for a (link, original) pair
FileCalls(link, original) ==
    IF action = "install" THEN <<[op |-> "symlink", at |-> link, to |-> original]>>
    ELSE IF action = "update" THEN <<[op |-> "remove_file", at |-> link, to |-> link]>>
    ELSE <<>>

\* the outcomes of a std::fs call
FsOutcomes == {"ok", "error"}

\* the destructuring `for (link, original) in package_set.link_file_paths()`
LinkOf(pair) == pair[1]

OriginalOf(pair) == pair[2]

\* an error that is recorded without leaving the function
ReturnCarriesOn(r) ==
    /\ result' = r
    /\ UNCHANGED pc

\* an error that is taken note of while the loop over the sets goes on
ReturnAndGoOn(r) ==
    /\ result' = r
    /\ pc' = IF r = "Ok" THEN "done" ELSE "set"

\* a `?` on an Err: execute returns the error
Return(r) ==
    /\ result' = r
    /\ pc' = "done"

\* the variable_replacements passed with the command of a phase
CommandVars(phase, package) ==
    IF phase = "packages" THEN AddPackageActionVars(package, PackageSetVars(package_set))
    ELSE IF phase = "run_after" THEN RunAfterVars(package_set)
    ELSE PackageSetVars(package_set)

Command(phase, package, installer, outcome) ==
    [visit |-> Visit, phase |-> phase, package |-> package, installer |-> installer,
     outcome |-> outcome, vars |-> CommandVars(phase, package)]

Phase(phase) == [visit |-> Visit, phase |-> phase]

\* execute_shell_command(cmd_str, vars)?: the command is run, and either
\* exits zero (on to the statement after `phase`) or execute returns the error
ShellStep(phase) ==
    \E outcome \in CommandOutcomes :
       /\ executed' = Append(executed, Command(phase, None, None, outcome))
       /\ phases' = Append(phases, Phase(phase))
       /\ IF ExecuteShellCommand(outcome) = "Ok"
          THEN pc' = AfterPhase(phase) /\ UNCHANGED result
          ELSE Return(ExecuteShellCommand(outcome))

\* link_file / unlink_file for one (link, original) pair: the calls are made,
\* and either succeed (then pc becomes `next`) or fail (then execute returns)
FileStep(phase, link, original, next) ==
    IF FileCalls(link, original) = <<>>
    THEN /\ pc' = next
         /\ UNCHANGED <<fs_ops, phases, result>>
    ELSE /\ phases' = Append(phases, Phase(phase))
         /\ \E outcome \in FsOutcomes :
               IF outcome = "ok"
               THEN /\ fs_ops' = fs_ops \o
                        [k \in DOMAIN FileCalls(link, original) |->
                            [visit |-> Visit,
                             op |-> FileCalls(link, original)[k].op,
                             at |-> FileCalls(link, original)[k].at,
                             to |-> FileCalls(link, original)[k].to]]
                    /\ pc' = next
                    /\ UNCHANGED result
               ELSE /\ Return(IoError)
                    /\ UNCHANGED fs_ops

\* PackageRepository::open_from
OpenRepository ==
    /\ pc = "open_repository"
    /\ repository' = RepositoryOpenFrom(repository_dir)
    /\ pc' = "open_registry"
    /\ UNCHANGED <<current, reporter, log_file, installed, call, returned,
                   registry_file, registry, repository_dir, action,
                   group_filter, set_filter, warnings, groups_todo, sets_todo, group,
                   package_set, packages_todo, links_todo, result, log_db, executed,
                   fs_ops, phases, visited, reported_done>>

\* InstallerRegistry::open_from
OpenRegistry ==
    /\ pc = "open_registry"
    /\ registry' = OpenFrom(registry_file)
    /\ warnings' = warnings \o
                     WarningsOf(RegistryFromLog(SelectSeq(registry_file, KeepInstaller)))
    /\ pc' = "execute"
    /\ UNCHANGED <<current, reporter, log_file, installed, call, returned,
                   registry_file, repository_dir, repository, action,
                   group_filter, set_filter, groups_todo, sets_todo, group,
                   package_set, packages_todo, links_todo, result, log_db, executed,
                   fs_ops, phases, visited, reported_done>>

\* execute, lines 284-313: the history log is opened (line 288), which creates
\* the store when there is none, and the groups to visit are selected
Execute ==
    /\ pc = "execute"
    /\ log_file' = TRUE
    /\ groups_todo' = GroupsToVisit
    /\ warnings' = IF group_filter # None /\ GroupsToVisit = <<>>
                   THEN Append(warnings, "No package set group found")
                   ELSE warnings
    /\ pc' = "group"
    /\ UNCHANGED <<current, reporter, installed, call, returned, registry_file, registry,
                   repository_dir, repository,
                   action, group_filter, set_filter, sets_todo, group, package_set,
                   packages_todo, links_todo, result, log_db, executed, fs_ops,
                   phases, visited, reported_done>>

\* execute_package_set_group, lines 318-342: the sets to visit are selected
ExecutePackageSetGroup ==
    /\ pc = "group"
    /\ groups_todo # <<>>
    /\ group' = Head(groups_todo)
    /\ sets_todo' = SetsToVisit(Head(groups_todo))
    /\ warnings' = IF set_filter # None /\ SetsToVisit(Head(groups_todo)) = <<>>
                   THEN Append(warnings, "No package set found")
                   ELSE warnings
    /\ pc' = "set"
    /\ UNCHANGED <<current, reporter, log_file, installed, call, returned,
                   registry_file, registry, repository_dir, repository,
                   action, group_filter, set_filter, groups_todo, package_set,
                   packages_todo, links_todo, result, log_db, executed, fs_ops,
                   phases, visited, reported_done>>

\* execute_package_set_group returns Ok (line 343): on to the next group
ExecutePackageSetGroupReturn ==
    /\ pc = "set"
    /\ sets_todo = <<>>
    /\ groups_todo' = Tail(groups_todo)
    /\ pc' = "group"
    /\ UNCHANGED <<current, reporter, log_file, installed, call, returned,
                   registry_file, registry, repository_dir, repository,
                   action, group_filter, set_filter, warnings, sets_todo, group,
                   package_set, packages_todo, links_todo, result, log_db, executed,
                   fs_ops, phases, visited, reported_done>>

\* execute, lines 314-315: "Done." is reported and Ok returned
ExecuteReturn ==
    /\ pc = "group"
    /\ groups_todo = <<>>
    /\ reported_done' = TRUE
    /\ Return("Ok")
    /\ UNCHANGED <<current, reporter, log_file, installed, call, returned,
                   registry_file, registry, repository_dir, repository,
                   action, group_filter, set_filter, warnings, groups_todo, sets_todo,
                   group, package_set, packages_todo, links_todo, log_db, executed,
                   fs_ops, phases, visited>>

\* the call of execute_package_set for the next set (lines 333, 340)
ExecutePackageSet ==
    /\ pc = "set"
    /\ sets_todo # <<>>
    /\ package_set' = Head(sets_todo)
    /\ visited' = Append(visited, [group |-> group.name, package_set |-> Head(sets_todo)])
    /\ packages_todo' = IF HasPackages(Head(sets_todo))
                        THEN Head(sets_todo).actions.packages ELSE <<>>
    /\ links_todo' = LinkFilePaths(Head(sets_todo))
    /\ pc' = PhaseOrder[1]
    /\ UNCHANGED <<current, reporter, log_file, installed, call, returned,
                   registry_file, registry, repository_dir, repository,
                   action, group_filter, set_filter, warnings, groups_todo, sets_todo,
                   group, result, log_db, executed, fs_ops, phases, reported_done>>

\* execute_package_set, lines 365-368: the run-before script
RunBefore ==
    /\ pc = "run_before"
    /\ IF package_set.run_before
       THEN ShellStep("run_before")
       ELSE /\ pc' = AfterPhase("run_before")
            /\ UNCHANGED <<executed, phases, result>>
    /\ UNCHANGED <<current, reporter, log_file, installed, call, returned,
                   registry_file, registry, repository_dir, repository,
                   action, group_filter, set_filter, warnings, groups_todo, sets_todo,
                   group, package_set, packages_todo, links_todo, log_db, fs_ops,
                   visited, reported_done>>

\* a loop that passes over a package without an installer
InstallerMissingSkips ==
    /\ packages_todo' = Tail(packages_todo)
    /\ UNCHANGED <<pc, result, executed, log_db>>

\* lines 374-376: the registry has no installer for the package
InstallerMissing ==
    /\ Return("NoInstallerForKind")
    /\ UNCHANGED <<packages_todo, executed, log_db>>

\* execute_package_set, lines 370-390: one iteration of the loop over the
\* packages, or its end
PackageStep ==
    /\ pc = "packages"
    /\ IF packages_todo = <<>>
       THEN /\ pc' = AfterPhase("packages")
            /\ UNCHANGED <<packages_todo, executed, log_db, phases, result>>
       ELSE LET p == Head(packages_todo) IN
            /\ phases' = Append(phases, Phase("packages"))
            /\ IF ~HasInstallerFor(PackagePlatform(p), p.kind)
               THEN InstallerMissing
               ELSE LET i == InstallerFor(PackagePlatform(p), p.kind) IN
                    \E outcome \in CommandOutcomes :
                       /\ executed' = IF PackageActionExecutes(i, p)
                                      THEN Append(executed,
                                             Command("packages", p.name, i.name, outcome))
                                      ELSE executed
                       /\ IF PackageAction(i, p, outcome) = "Ok"
                          THEN \E written \in LogOutcomes :
                                  IF written = "ok"
                                  THEN /\ log_db' = Append(log_db, InstalledPackage(i, p))
                                       /\ packages_todo' = Tail(packages_todo)
                                       /\ UNCHANGED <<pc, result>>
                                  ELSE /\ Return(SqlError)
                                       /\ UNCHANGED <<packages_todo, log_db>>
                          ELSE /\ Return(PackageAction(i, p, outcome))
                               /\ UNCHANGED <<packages_todo, log_db>>
    /\ UNCHANGED <<current, reporter, log_file, installed, call, returned,
                   registry_file, registry, repository_dir, repository,
                   action, group_filter, set_filter, warnings, groups_todo, sets_todo,
                   group, package_set, links_todo, fs_ops, visited, reported_done>>

\* execute_package_set, lines 392-398: the script of a script-shaped set
Scripts ==
    /\ pc = "scripts"
    /\ IF ScriptFor(package_set)
       THEN ShellStep("scripts")
       ELSE /\ pc' = AfterPhase("scripts")
            /\ UNCHANGED <<executed, phases, result>>
    /\ UNCHANGED <<current, reporter, log_file, installed, call, returned,
                   registry_file, registry, repository_dir, repository,
                   action, group_filter, set_filter, warnings, groups_todo, sets_todo,
                   group, package_set, packages_todo, links_todo, log_db, fs_ops,
                   visited, reported_done>>

\* execute_package_set, lines 400-417: the env-file
EnvFile ==
    /\ pc = "env_file"
    /\ IF package_set.env_file # None
       THEN FileStep("env_file", EnvFileLink(package_set), EnvFilePath(package_set),
                     AfterPhase("env_file"))
       ELSE /\ pc' = AfterPhase("env_file")
            /\ UNCHANGED <<fs_ops, phases, result>>
    /\ UNCHANGED <<current, reporter, log_file, installed, call, returned,
                   registry_file, registry, repository_dir, repository,
                   action, group_filter, set_filter, warnings, groups_todo, sets_todo,
                   group, package_set, packages_todo, links_todo, log_db, executed,
                   visited, reported_done>>

\* execute_package_set, lines 419-430: one iteration of the loop over the
\* link-files pairs (a HashMap: any order), or its end
LinkFile ==
    /\ pc = "link_files"
    /\ IF links_todo = {}
       THEN /\ pc' = AfterPhase("link_files")
            /\ UNCHANGED <<links_todo, fs_ops, phases, result>>
       ELSE \E pair \in links_todo :
               /\ links_todo' = links_todo \ {pair}
               /\ FileStep("link_files", LinkOf(pair), OriginalOf(pair), pc)
    /\ UNCHANGED <<current, reporter, log_file, installed, call, returned,
                   registry_file, registry, repository_dir, repository,
                   action, group_filter, set_filter, warnings, groups_todo, sets_todo,
                   group, package_set, packages_todo, log_db, executed, visited,
                   reported_done>>

\* execute_package_set, lines 432-436: the run-after script
RunAfter ==
    /\ pc = "run_after"
    /\ IF package_set.run_after
       THEN ShellStep("run_after")
       ELSE /\ pc' = AfterPhase("run_after")
            /\ UNCHANGED <<executed, phases, result>>
    /\ UNCHANGED <<current, reporter, log_file, installed, call, returned,
                   registry_file, registry, repository_dir, repository,
                   action, group_filter, set_filter, warnings, groups_todo, sets_todo,
                   group, package_set, packages_todo, links_todo, log_db, fs_ops,
                   visited, reported_done>>

\* execute_package_set returns Ok (line 438): on to the next set
ExecutePackageSetReturn ==
    /\ pc = "return"
    /\ sets_todo' = Tail(sets_todo)
    /\ pc' = "set"
    /\ UNCHANGED <<current, reporter, log_file, installed, call, returned,
                   registry_file, registry, repository_dir, repository,
                   action, group_filter, set_filter, warnings, groups_todo, group,
                   package_set, packages_todo, links_todo, result, log_db, executed,
                   fs_ops, phases, visited, reported_done>>

----------------------------------------------------------------------------
(* The inputs of a run *)

\* installers.yml documents: the entries take their names from their places
RegistryFiles(platforms, kinds, guards, commands, n) ==
    {[k \in DOMAIN f |->
        [name |-> NameOrder[k], platform |-> f[k].platform, kind |-> f[k].kind,
         if_exists |-> f[k].if_exists, commands |-> f[k].commands]] :
     f \in SeqsUpTo([platform : platforms, kind : kinds, if_exists : guards,
                     commands : commands], n)}

\* the packages of a package-shaped set: they take their names from their places
PackageLists(platforms, kinds, n) ==
    {[k \in DOMAIN f |->
        [name |-> NameOrder[k], platform |-> f[k].platform, kind |-> f[k].kind]] :
     f \in SeqsUpTo([platform : platforms, kind : kinds], n)}

\* PackageSetActions::Packages
PackagesActions(packages) == [shape |-> "packages", packages |-> packages, scripts |-> {}]

\* PackageSetActions::Scripts: the actions that have a script
ScriptsActions(scripts) == [shape |-> "scripts", packages |-> <<>>, scripts |-> scripts]

ScriptMaps == {m \in SUBSET InstallActionKinds : Cardinality(m) <= MaxScripts}

FileNames == <<"f1", "f2", "f3">>

\* link-files maps: source file -> target
LinkFileMaps ==
    {{[src |-> FileNames[k], tgt |-> FileNames[k]] : k \in 1..n} : n \in 0..MaxLinkFiles}

PackageSet(name, run_before, actions, env_file, link_files, run_after) ==
    [name |-> name, platform |-> None, run_before |-> run_before, actions |-> actions,
     env_file |-> env_file, link_files |-> link_files, run_after |-> run_after,
     env_vars |-> <<>>, path |-> ""]

\* the package set with the env-vars its file declares
WithEnvVars(ps, env_vars) == [ps EXCEPT !.env_vars = env_vars]

\* for_platform, of InstallerBuilder, PackageBuilder and PackageSetBuilder
ForPlatform(value, platform) == [value EXCEPT !.platform = platform]

\* for_linux_only, of the three builders: for_platform(Platform::Macos)
ForLinuxOnly(value) == ForPlatform(value, "macos")

\* for_any_platform
ForAnyPlatform(value) == [value EXCEPT !.platform = None]

\* PackageSetBuilder::named
PackageSetNamed(name) == PackageSet(name, FALSE, PackagesActions(<<>>), None, {}, FALSE)

\* PackageBuilder::named
PackageNamed(name) == [name |-> name, platform |-> None, kind |-> "default"]

\* InstallerBuilder::named
InstallerNamed(name) ==
    [name |-> name, platform |-> None, kind |-> "default", if_exists |-> None,
     commands |-> {}]

\* a registry document with one default installer for each platform
PlatformInstallers ==
    <<[name |-> "a", platform |-> "macos", kind |-> "default", if_exists |-> None,
       commands |-> {"install", "update"}],
      [name |-> "b", platform |-> "linux", kind |-> "default", if_exists |-> None,
       commands |-> {"install", "update"}]>>

\* reporter.rs, lines 33-35: IS_INTERACTIVE starts false; nothing is running
\* and nothing was written
ReporterStart == [is_interactive |-> FALSE, stack |-> <<>>, output |-> <<>>, value |-> FALSE]

InitRun ==
    /\ current \in Platforms
    /\ pc = "open_repository"
    /\ repository = <<>>
    /\ registry = <<>>
    /\ groups_todo = <<>>
    /\ sets_todo = <<>>
    /\ group = [name |-> None, package_sets |-> <<>>]
    /\ package_set = PackageSet(None, FALSE, PackagesActions(<<>>), None, {}, FALSE)
    /\ packages_todo = <<>>
    /\ links_todo = {}
    /\ result = "running"
    /\ log_db = <<>>
    /\ executed = <<>>
    /\ fs_ops = <<>>
    /\ phases = <<>>
    /\ visited = <<>>
    /\ warnings = <<>>
    /\ reported_done = FALSE
    /\ log_file = FALSE
    /\ installed = <<>>
    /\ call = [fn |-> None]
    /\ returned = <<>>
    /\ reporter = ReporterStart

\* one package-shaped set against the registries of up to MaxInstallers entries,
\* for an action the installers have a command for and one they have none for
InitPackages ==
    /\ InitRun
    /\ action \in {"install", "uninstall"}
    /\ group_filter = None
    /\ set_filter = None
    /\ registry_file \in RegistryFiles(Platforms \cup {None}, PackageKinds, {None},
                                       {{"install", "update"}}, MaxInstallers)
    /\ \E packages \in PackageLists(Platforms \cup {None}, PackageKinds, MaxPackages) :
          repository_dir =
            <<[name |-> "a",
               package_sets |-> <<PackageSet("a", FALSE, PackagesActions(packages),
                                             None, {}, FALSE)>>]>>

\* one set with every combination of phases
InitPhases ==
    /\ InitRun
    /\ action \in InstallActionKinds
    /\ group_filter = None
    /\ set_filter = None
    /\ registry_file \in RegistryFiles({current}, {"default"}, {None} \cup IfExistsPaths,
                                       {{"install", "update"}}, 1)
    /\ \E run_before \in BOOLEAN, run_after \in BOOLEAN, env_file \in {None, "env"},
          link_files \in LinkFileMaps,
          actions \in {PackagesActions(l) :
                         l \in PackageLists({None}, {"default"}, MaxPackages)}
                      \cup {ScriptsActions(m) : m \in ScriptMaps} :
          repository_dir =
            <<[name |-> "a",
               package_sets |-> <<PackageSet("a", run_before, actions, env_file,
                                             link_files, run_after)>>]>>

\* the directories of a repository: up to MaxGroups groups of up to MaxSets sets
RepositoryNames == {NameOrder[1], NameOrder[2]}

\* the sets of a group directory, in the order read_dir lists them: the set
\* named first is package-shaped, the others are script-shaped
SetListings ==
    {[k \in DOMAIN f |->
        PackageSet(f[k], FALSE,
                   IF f[k] = NameOrder[1]
                   THEN PackagesActions([j \in 1..1 |->
                           [name |-> NameOrder[k], platform |-> None, kind |-> "default"]])
                   ELSE ScriptsActions({"install"}),
                   None, {}, FALSE)] :
     f \in SeqsUpTo(RepositoryNames, MaxSets)}

\* the group directories, in the order read_dir lists them: a directory holds
\* a name once, and InstallAction::run calls execute for a repository with a
\* group only
GroupListings ==
    {d \in SeqsUpTo([name : RepositoryNames, package_sets : SetListings], MaxGroups) :
        /\ d # <<>>
        /\ \A i, j \in DOMAIN d : i # j => d[i].name # d[j].name}

\* a repository of several groups and sets, with and without filters
InitRepository ==
    /\ InitRun
    /\ action = "install"
    /\ group_filter \in Names \cup {None}
    /\ set_filter \in Names \cup {None}
    /\ registry_file = PlatformInstallers
    /\ repository_dir \in GroupListings

\* the registry documents of up to MaxInstallers entries, and a repository of
\* one group without sets
InitRegistry ==
    /\ InitRun
    /\ action = "install"
    /\ group_filter = None
    /\ set_filter = None
    /\ registry_file \in RegistryFiles(Platforms \cup {None}, PackageKinds,
                                       {None} \cup IfExistsPaths,
                                       {{}, {"install", "update"}}, MaxInstallers)
    /\ repository_dir = <<[name |-> "a", package_sets |-> <<>>]>>

\* the env-vars maps of a package set file: up to MaxEnvVars entries, with
\* placeholders in keys and in values
MaxEnvVars == 1

EnvVarKeys == {<<"x">>, <<"package_name">>, <<"{", "{", "platform", "}", "}">>}

EnvVarValues == {<<"v">>, <<"{", "{", "home", "}", "}">>}

EnvVarMaps ==
    UNION {[keys -> EnvVarValues] :
             keys \in {k \in SUBSET EnvVarKeys : Cardinality(k) <= MaxEnvVars}}

\* one set with env-vars, a run-before and a run-after script, and one package
\* or one script
InitEnvVars ==
    /\ InitRun
    /\ action = "install"
    /\ group_filter = None
    /\ set_filter = None
    /\ registry_file = PlatformInstallers
    /\ \E env_vars \in EnvVarMaps,
          actions \in {PackagesActions(l) : l \in PackageLists({None}, {"default"}, 1)}
                      \cup {ScriptsActions({"install"})} :
          repository_dir =
            <<[name |-> "a",
               package_sets |-> <<WithEnvVars(PackageSet("a", TRUE, actions, None, {},
                                                         TRUE), env_vars)>>]>>

\* one set with a run-before script and one package or one script, for one of
\* the platforms or for any
InitSetPlatform ==
    /\ InitRun
    /\ action = "install"
    /\ group_filter = None
    /\ set_filter = None
    /\ registry_file = PlatformInstallers
    /\ \E platform \in Platforms,
          actions \in {PackagesActions(l) : l \in PackageLists({None}, {"default"}, 1)}
                      \cup {ScriptsActions({"install"})} :
          repository_dir =
            <<[name |-> "a",
               package_sets |-> <<ForPlatform(PackageSet("a", TRUE, actions, None, {},
                                                         FALSE), platform)>>]>>

Init ==
    \/ InitPackages
    \/ InitPhases
    \/ InitRepository
    \/ InitRegistry
    \/ InitEnvVars
    \/ InitSetPlatform

Next ==
    \/ OpenRepository
    \/ OpenRegistry
    \/ Execute
    \/ ExecutePackageSetGroup
    \/ ExecutePackageSetGroupReturn
    \/ ExecuteReturn
    \/ ExecutePackageSet
    \/ ExecutePackageSetReturn
    \/ RunBefore
    \/ PackageStep
    \/ Scripts
    \/ EnvFile
    \/ LinkFile
    \/ RunAfter

Spec == Init /\ [][Next]_vars

----------------------------------------------------------------------------
(* Functions called on their own *)

\* the state of a process that calls one function and is not inside execute
IdleRun ==
    /\ registry_file = <<>>
    /\ registry = <<>>
    /\ repository_dir = <<>>
    /\ repository = <<>>
    /\ group_filter = None
    /\ set_filter = None
    /\ groups_todo = <<>>
    /\ sets_todo = <<>>
    /\ group = [name |-> None, package_sets |-> <<>>]
    /\ packages_todo = <<>>
    /\ links_todo = {}
    /\ result = "running"
    /\ log_db = <<>>
    /\ executed = <<>>
    /\ fs_ops = <<>>
    /\ phases = <<>>
    /\ visited = <<>>
    /\ warnings = <<>>
    /\ reported_done = FALSE
    /\ log_file = FALSE
    /\ installed = <<>>
    /\ returned = <<>>
    /\ reporter = ReporterStart

\* the same, with no package set at hand
Idle ==
    /\ IdleRun
    /\ package_set = PackageSet(None, FALSE, PackagesActions(<<>>), None, {}, FALSE)

\* the installers and the packages package_action is called with
CallInstallers ==
    [name : {"a"}, platform : Platforms \cup {None}, kind : PackageKinds,
     if_exists : {None}, commands : {{}, {"install", "update"}}]

CallPackages == [name : {"b"}, platform : Platforms \cup {None}, kind : PackageKinds]

\* a call installer.package_action(action, package, vars)
InitPackageAction ==
    /\ Idle
    /\ pc = "call"
    /\ current \in Platforms
    /\ action \in InstallActionKinds
    /\ call \in [fn : {"package_action"}, installer : CallInstallers,
                  package : CallPackages]

\* Installer::package_action, lines 141-176
CallPackageAction ==
    /\ call.fn = "package_action"
    /\ returned = <<>>
    /\ \E outcome \in CommandOutcomes :
          /\ executed' = IF PackageActionExecutes(call.installer, call.package)
                         THEN Append(executed,
                                Command("packages", call.package.name,
                                        call.installer.name, outcome))
                         ELSE executed
          /\ returned' = <<PackageAction(call.installer, call.package, outcome)>>
    /\ UNCHANGED <<current, reporter, registry_file, registry, repository_dir, repository,
                   action, group_filter, set_filter, warnings, pc, groups_todo,
                   sets_todo, group, package_set, packages_todo, links_todo, result,
                   log_db, fs_ops, phases, visited, reported_done, log_file,
                   installed, call>>

\* the command strings execute_command is called with, as from_str tokenises
\* them, and the variable maps: with the key "shell", and as default_vars
\* builds them, with the key "command_shell"
CommandTokens ==
    {Token("Plain", "brew"), Token("Plain", "install"), Token("String", "a b"),
     Token("Variable", "package_name"), Token("Special", "|")}

MaxTokens == 3

CommandStrings == SeqsUpTo(CommandTokens, MaxTokens) \ {<<>>}

CommandVariables ==
    {("shell" :> "sh") @@ ("package_name" :> "x"),
     ("command_shell" :> "sh") @@ ("package_name" :> "x")}

\* a call tokens.execute_command(vars)
InitExecuteCommand ==
    /\ Idle
    /\ pc = "call"
    /\ current \in Platforms
    /\ action = "install"
    /\ call \in [fn : {"execute_command"}, tokens : CommandStrings,
                  vars : CommandVariables]

\* Tokens::execute_command, lines 156-226
CallExecuteCommand ==
    /\ call.fn = "execute_command"
    /\ returned = <<>>
    /\ IF ExecuteCommandPanics(call.tokens, call.vars)
       THEN /\ returned' = <<[kind |-> "panic"]>>
            /\ UNCHANGED executed
       ELSE \E outcome \in CommandOutcomes :
               /\ executed' = <<Spawn(CommandLine(call.tokens, call.vars), outcome)>>
               /\ returned' = <<ExecuteCommandResult(outcome)>>
    /\ UNCHANGED <<current, reporter, registry_file, registry, repository_dir, repository,
                   action, group_filter, set_filter, warnings, pc, groups_todo,
                   sets_todo, group, package_set, packages_todo, links_todo, result,
                   log_db, fs_ops, phases, visited, reported_done, log_file,
                   installed, call>>

\* a call editor.edit(file_path)
InitEdit ==
    /\ Idle
    /\ pc = "call"
    /\ current \in Platforms
    /\ action = "install"
    /\ call \in [fn : {"edit"}, editor : {"vi", "emacs"}, file_path : {"installers.yml"}]

\* SystemEditor::edit, lines 37-50
CallEdit ==
    /\ call.fn = "edit"
    /\ returned = <<>>
    /\ \E outcome \in CommandOutcomes :
          /\ executed' = <<[program |-> call.editor, args |-> <<call.file_path>>,
                            outcome |-> outcome]>>
          /\ returned' = <<EditResult(call.editor, outcome)>>
    /\ UNCHANGED <<current, reporter, registry_file, registry, repository_dir, repository,
                   action, group_filter, set_filter, warnings, pc, groups_todo,
                   sets_todo, group, package_set, packages_todo, links_todo, result,
                   log_db, fs_ops, phases, visited, reported_done, log_file,
                   installed, call>>

\* the strings var_string_replace is called with: up to MaxPieces pieces, each
\* a character or a whole placeholder
MaxPieces == 5

StringPieces == {<<"{">>, <<"}">>, <<"x">>, <<" ">>, <<"{", "{", "x", "}", "}">>}

TemplateStrings == {Flatten(pieces) : pieces \in SeqsUpTo(StringPieces, MaxPieces)}

\* the maps var_string_replace is called with: x is missing, or has a plain
\* value, or has a value that holds a placeholder; y is missing or has a value
ReplacementMaps ==
    {x @@ y : x \in {<<>>, <<"x">> :> <<"v">>, <<"x">> :> <<"{", "{", "y", "}", "}">>},
              y \in {<<>>, <<"y">> :> <<"w">>}}

\* a call var_string_replace(string, vars)
InitVarStringReplace ==
    /\ Idle
    /\ pc = "call"
    /\ current = "macos"
    /\ action = "install"
    /\ call \in [fn : {"var_string_replace"}, string : TemplateStrings,
                  vars : ReplacementMaps]

\* var_string_replace, lines 258-278
CallVarStringReplace ==
    /\ call.fn = "var_string_replace"
    /\ returned = <<>>
    /\ returned' = <<VarStringReplace(call.string, call.vars)>>
    /\ UNCHANGED <<current, reporter, registry_file, registry, repository_dir, repository,
                   action, group_filter, set_filter, warnings, pc, groups_todo,
                   sets_todo, group, package_set, packages_todo, links_todo, result,
                   log_db, executed, fs_ops, phases, visited, reported_done, log_file,
                   installed, call>>

\* a call Platform::CURRENT.is_match(other)
InitIsMatch ==
    /\ Idle
    /\ pc = "call"
    /\ current \in Platforms
    /\ action = "install"
    /\ call \in [fn : {"is_match"}, other : Platforms \cup {None}]

\* Platform::is_match, lines 194-196
CallIsMatch ==
    /\ call.fn = "is_match"
    /\ returned = <<>>
    /\ returned' = <<IsMatch(current, call.other)>>
    /\ UNCHANGED <<current, reporter, registry_file, registry, repository_dir, repository,
                   action, group_filter, set_filter, warnings, pc, groups_todo,
                   sets_todo, group, package_set, packages_todo, links_todo, result,
                   log_db, executed, fs_ops, phases, visited, reported_done, log_file,
                   installed, call>>

\* the strings Name::from_str is called with: up to MaxNameLen characters, some
\* alphanumeric, the special ones, a space, a tab and an exclamation mark
MaxNameLen == 3

NameChars == Alphanumerics \cup NameSpecialChars \cup {" ", "\t", "!"}

\* a call Name::from_str(s)
InitNameFromStr ==
    /\ Idle
    /\ pc = "call"
    /\ current = "macos"
    /\ action = "install"
    /\ call \in [fn : {"from_str"}, s : SeqsUpTo(NameChars, MaxNameLen)]

\* Name::from_str, lines 108-114
CallNameFromStr ==
    /\ call.fn = "from_str"
    /\ returned = <<>>
    /\ returned' = <<NameFromStr(call.s)>>
    /\ UNCHANGED <<current, reporter, registry_file, registry, repository_dir, repository,
                   action, group_filter, set_filter, warnings, pc, groups_todo,
                   sets_todo, group, package_set, packages_todo, links_todo, result,
                   log_db, executed, fs_ops, phases, visited, reported_done, log_file,
                   installed, call>>

\* to_string on the Name that from_str returned
CallNameToString ==
    /\ call.fn = "from_str"
    /\ Len(returned) = 1
    /\ returned[1].kind = "Ok"
    /\ returned' = Append(returned, NameToString(returned[1].value))
    /\ UNCHANGED <<current, reporter, registry_file, registry, repository_dir, repository,
                   action, group_filter, set_filter, warnings, pc, groups_todo,
                   sets_todo, group, package_set, packages_todo, links_todo, result,
                   log_db, executed, fs_ops, phases, visited, reported_done, log_file,
                   installed, call>>


----------------------------------------------------------------------------
(* Package set documents: serde on Package, PackageSetActions, PackageSet *)

\* A document is the map of the keys it has to their values. A field with
\* skip_serializing_if is written only when the condition does not hold.
Field(written, key, value) == IF written THEN key :> value ELSE <<>>

\* Serialize for Package
PackageToDocument(p) ==
    ("name" :> p.name) @@ Field(p.platform # None, "platform", p.platform)
                       @@ Field(p.kind # "default", "kind", p.kind)

\* PackageSetActions::is_empty
ActionsIsEmpty(a) ==
    IF a.shape = "packages" THEN a.packages = <<>> ELSE a.scripts = {}

\* Serialize for PackageSetActions (untagged): the fields of the variant
ActionsToDocument(a) ==
    IF a.shape = "packages"
    THEN Field(a.packages # <<>>, "packages",
               [k \in DOMAIN a.packages |-> PackageToDocument(a.packages[k])])
    ELSE Field(a.scripts # {}, "scripts", a.scripts)

\* Serialize for PackageSet: path is skipped
PackageSetToDocument(ps) ==
    ("name" :> ps.name)
    @@ Field(ps.platform # None, "platform", ps.platform)
    @@ Field(DOMAIN ps.env_vars # {}, "env-vars", ps.env_vars)
    @@ Field(ps.run_before, "run-before", "script")
    @@ Field(~ActionsIsEmpty(ps.actions), "actions", ActionsToDocument(ps.actions))
    @@ Field(ps.env_file # None, "env-file", ps.env_file)
    @@ Field(ps.link_files # {}, "link-files", ps.link_files)
    @@ Field(ps.run_after, "run-after", "script")

\* the value of a key, or the default of the field
Get(doc, key, default) == IF key \in DOMAIN doc THEN doc[key] ELSE default

\* Deserialize for Package (deny_unknown_fields): is the document accepted
PackageAccepted(doc) ==
    /\ "name" \in DOMAIN doc
    /\ DOMAIN doc \subseteq {"name", "platform", "kind"}

\* Deserialize for Package: the value
PackageFromDocument(doc) ==
    [name |-> doc["name"], platform |-> Get(doc, "platform", None),
     kind |-> Get(doc, "kind", "default")]

\* Deserialize for PackageSetActions (untagged, deny_unknown_fields): the
\* variant Packages accepts the document
IsPackagesDocument(doc) ==
    /\ DOMAIN doc \subseteq {"packages"}
    /\ \A k \in DOMAIN Get(doc, "packages", <<>>) : PackageAccepted(doc["packages"][k])

\* the variant Scripts accepts the document
IsScriptsDocument(doc) == DOMAIN doc \subseteq {"scripts"}

\* Deserialize for PackageSetActions: the first variant that accepts
ActionsFromDocument(doc) ==
    IF IsPackagesDocument(doc)
    THEN PackagesActions([k \in DOMAIN Get(doc, "packages", <<>>) |->
                            PackageFromDocument(doc["packages"][k])])
    ELSE ScriptsActions(Get(doc, "scripts", {}))

\* Deserialize for PackageSet (no deny_unknown_fields): is the document accepted
PackageSetAccepted(doc) ==
    /\ "name" \in DOMAIN doc
    /\ "actions" \in DOMAIN doc =>
          (IsPackagesDocument(doc["actions"]) \/ IsScriptsDocument(doc["actions"]))

\* serde_yaml::from_str::<PackageSet>: the fields the document has, the defaults
\* for the others, and the default path
PackageSetFromDocument(doc) ==
    IF PackageSetAccepted(doc)
    THEN [kind |-> "Ok",
          value |-> [name |-> doc["name"],
                     platform |-> Get(doc, "platform", None),
                     env_vars |-> Get(doc, "env-vars", <<>>),
                     run_before |-> "run-before" \in DOMAIN doc,
                     actions |-> IF "actions" \in DOMAIN doc
                                 THEN ActionsFromDocument(doc["actions"])
                                 ELSE PackagesActions(<<>>),
                     env_file |-> Get(doc, "env-file", None),
                     link_files |-> Get(doc, "link-files", {}),
                     run_after |-> "run-after" \in DOMAIN doc,
                     path |-> ""]]
    ELSE [kind |-> "Serialization"]

\* the documents PackageSet::read is given: the documents of some sets, as they
\* are and with a key that no struct has at one of three places
ReadDocuments ==
    LET package == ("name" :> "a")
        packages(p) == ("name" :> "a") @@ ("actions" :> ("packages" :> <<p>>))
        scripts(a) == ("name" :> "a") @@ ("actions" :> a)
        typo == "typo" :> "x"
    IN {[document |-> packages(package), unknown |-> None],
        [document |-> scripts("scripts" :> {"install"}), unknown |-> None],
        [document |-> "name" :> "a", unknown |-> None],
        [document |-> ("name" :> "a") @@ ("actions" :> <<>>), unknown |-> None],
        [document |-> packages(package) @@ typo, unknown |-> "set"],
        [document |-> ("name" :> "a") @@ typo, unknown |-> "set"],
        [document |-> scripts(("scripts" :> {"install"}) @@ typo), unknown |-> "actions"],
        [document |-> scripts(("packages" :> <<package>>) @@ typo), unknown |-> "actions"],
        [document |-> scripts(("packages" :> <<package>>) @@ ("scripts" :> {"install"})),
         unknown |-> "actions"],
        [document |-> packages(package @@ typo), unknown |-> "package"]}

\* PackageSet::read, lines 185-194: the parsed set with its path, or the error
PackageSetRead(path, doc) ==
    IF PackageSetFromDocument(doc).kind = "Ok"
    THEN [kind |-> "Ok",
          value |-> [PackageSetFromDocument(doc).value EXCEPT !.path = path]]
    ELSE PackageSetFromDocument(doc)

\* a call PackageSet::read(path) on a file that holds the document
InitRead ==
    /\ Idle
    /\ pc = "call"
    /\ current \in Platforms
    /\ action = "install"
    /\ \E d \in ReadDocuments :
          call = [fn |-> "read", document |-> d.document, unknown |-> d.unknown]

\* PackageSet::read, lines 185-194
CallRead ==
    /\ call.fn = "read"
    /\ returned = <<>>
    /\ returned' = <<PackageSetRead("set.yml", call.document)>>
    /\ UNCHANGED <<current, reporter, registry_file, registry, repository_dir, repository,
                   action, group_filter, set_filter, warnings, pc, groups_todo,
                   sets_todo, group, package_set, packages_todo, links_todo, result,
                   log_db, executed, fs_ops, phases, visited, reported_done, log_file,
                   installed, call>>

\* a call for_linux_only() on one of the three builders, just made by named
InitForLinuxOnly ==
    /\ Idle
    /\ pc = "call"
    /\ current \in Platforms
    /\ action = "install"
    /\ call \in [fn : {"for_linux_only"},
                 builder : {"InstallerBuilder", "PackageBuilder", "PackageSetBuilder"}]

\* for_linux_only and build: installer.rs 536-538, packages.rs 553-555, 649-651
CallForLinuxOnly ==
    /\ call.fn = "for_linux_only"
    /\ returned = <<>>
    /\ returned' = <<ForLinuxOnly(CASE call.builder = "InstallerBuilder" -> InstallerNamed("a")
                                    [] call.builder = "PackageBuilder" -> PackageNamed("a")
                                    [] OTHER -> PackageSetNamed("a"))>>
    /\ UNCHANGED <<current, reporter, registry_file, registry, repository_dir, repository,
                   action, group_filter, set_filter, warnings, pc, groups_todo,
                   sets_todo, group, package_set, packages_todo, links_todo, result,
                   log_db, executed, fs_ops, phases, visited, reported_done, log_file,
                   installed, call>>

InitCalls ==
    \/ InitForLinuxOnly
    \/ InitRead
    \/ InitPackageAction
    \/ InitExecuteCommand
    \/ InitEdit
    \/ InitVarStringReplace
    \/ InitIsMatch
    \/ InitNameFromStr

NextCalls ==
    \/ CallForLinuxOnly
    \/ CallRead
    \/ CallPackageAction
    \/ CallExecuteCommand
    \/ CallEdit
    \/ CallVarStringReplace
    \/ CallIsMatch
    \/ CallNameFromStr
    \/ CallNameToString

SpecCalls == InitCalls /\ [][NextCalls]_vars

----------------------------------------------------------------------------
(* PackageLog (shared/install_log.rs) used on its own *)

\* the rows a PackageLog is filled with, the readings of the clock
\* OffsetDateTime::now_utc, which is the wall clock and may repeat a reading
\* or go back, and the limits of a query
MaxRows == 3

MaxTime == 3

MaxLimit == 2

\* a fresh system: no store, and no PackageLog opened yet
InitLog ==
    /\ Idle
    /\ pc = "log_closed"
    /\ current = "macos"
    /\ action = "install"
    /\ call = [fn |-> None]

\* PackageLog::open_from, lines 48-75: a store that is no file is created with
\* its table; then the connection is open
LogOpen ==
    /\ pc = "log_closed"
    /\ log_file' = TRUE
    /\ pc' = "log_open"
    /\ UNCHANGED <<current, reporter, registry_file, registry, repository_dir, repository,
                   action, group_filter, set_filter, warnings, groups_todo,
                   sets_todo, group, package_set, packages_todo, links_todo, result,
                   log_db, executed, fs_ops, phases, visited, reported_done,
                   installed, call, returned>>

\* PackageLog::log_installed_package, lines 81-94: a row with the reading of
\* the clock is inserted
LogInstalledPackage ==
    /\ pc = "log_open"
    /\ Len(installed) < MaxRows
    /\ \E now \in 1..MaxTime :
          installed' = Append(installed,
                              [rowid |-> Len(installed) + 1, date_time |-> now,
                               package |-> "a", installer |-> "a"])
    /\ call' = [fn |-> "log_installed_package"]
    /\ returned' = <<"Ok">>
    /\ UNCHANGED <<current, reporter, registry_file, registry, repository_dir, repository,
                   action, group_filter, set_filter, warnings, pc, groups_todo,
                   sets_todo, group, package_set, packages_todo, links_todo, result,
                   log_db, executed, fs_ops, phases, visited, reported_done,
                   log_file>>

\* an ORDER BY that sorts the oldest row first
HistoryOrdersAscending(rows) ==
    {order \in [DOMAIN rows -> DOMAIN rows] :
        /\ \A i, j \in DOMAIN rows : i # j => order[i] # order[j]
        /\ \A i, j \in DOMAIN rows :
              i < j => rows[order[i]].date_time <= rows[order[j]].date_time}

\* ORDER BY date_time DESC: the orders the rows can be returned in, as
\* order[k] = the place in the table of the k-th row returned; rows with the
\* same date_time come in any order
HistoryOrders(rows) ==
    {order \in [DOMAIN rows -> DOMAIN rows] :
        /\ \A i, j \in DOMAIN rows : i # j => order[i] # order[j]
        /\ \A i, j \in DOMAIN rows :
              i < j => rows[order[i]].date_time >= rows[order[j]].date_time}

\* PackageLog::installed_package_history, lines 97-108: the rows in the order
\* of the ORDER BY, cut by LIMIT when limit > 0
InstalledPackageHistory(rows, limit, order) ==
    IF limit > 0 /\ limit < Len(rows)
    THEN [k \in 1..limit |-> rows[order[k]]]
    ELSE [k \in DOMAIN rows |-> rows[order[k]]]

\* a query installed_package_history(limit) on the open PackageLog
LogHistory ==
    /\ pc = "log_open"
    /\ \E limit \in 0..MaxLimit, order \in HistoryOrders(installed) :
          /\ call' = [fn |-> "installed_package_history", limit |-> limit]
          /\ returned' = <<InstalledPackageHistory(installed, limit, order)>>
    /\ UNCHANGED <<current, reporter, registry_file, registry, repository_dir, repository,
                   action, group_filter, set_filter, warnings, pc, groups_todo,
                   sets_todo, group, package_set, packages_todo, links_todo, result,
                   log_db, executed, fs_ops, phases, visited, reported_done,
                   log_file, installed>>

NextLog == LogOpen \/ LogInstalledPackage \/ LogHistory

SpecLog == InitLog /\ [][NextLog]_vars

----------------------------------------------------------------------------
(* The reporter (reporter.rs) *)

\* the frames the stack of the thread has room for
MaxStack == 12

\* the messages report_message is called with
Messages == {"m1", "m2"}

\* a frame of is_interactive, about to run line 50
IsInteractiveFrame == [fn |-> "is_interactive", at |-> 50]

\* a frame of report_message, about to run line 56
ReportMessageFrame(msg, error) ==
    [fn |-> "report_message", at |-> 56, msg |-> msg, error |-> error]

\* report_message, lines 56-66: where the message goes
Stream(interactive, error) ==
    IF interactive THEN IF error THEN "stderr" ELSE "stdout"
    ELSE IF error THEN "error!" ELSE "info!"

\* nothing of the reporter is running
InitReporter ==
    /\ Idle
    /\ pc = "reporter"
    /\ current \in Platforms
    /\ action = "install"
    /\ call = [fn |-> None]

\* the part of an action of the reporter that stays as it is
ReporterOnly ==
    UNCHANGED <<current, registry_file, registry, repository_dir, repository,
                action, group_filter, set_filter, warnings, groups_todo,
                sets_todo, group, package_set, packages_todo, links_todo, result,
                log_db, executed, fs_ops, phases, visited, reported_done, log_file,
                installed>>

\* set_is_interactive, lines 41-44
SetIsInteractive ==
    /\ pc = "reporter"
    /\ reporter.stack = <<>>
    /\ \E is_interactive \in BOOLEAN :
          /\ call' = [fn |-> "set_is_interactive", is_interactive |-> is_interactive]
          /\ reporter' = [reporter EXCEPT !.is_interactive = is_interactive,
                                          !.output = <<>>]
    /\ returned' = <<>>
    /\ UNCHANGED pc
    /\ ReporterOnly

\* a caller enters is_interactive, line 49
CallIsInteractive ==
    /\ pc = "reporter"
    /\ reporter.stack = <<>>
    /\ call' = [fn |-> "is_interactive"]
    /\ reporter' = [reporter EXCEPT !.stack = <<IsInteractiveFrame>>, !.output = <<>>]
    /\ returned' = <<>>
    /\ UNCHANGED pc
    /\ ReporterOnly

\* a caller enters report_message, line 55 (reportln! and ereportln!)
CallReportMessage ==
    /\ pc = "reporter"
    /\ reporter.stack = <<>>
    /\ \E msg \in Messages, error \in BOOLEAN :
          /\ call' = [fn |-> "report_message", msg |-> msg, error |-> error]
          /\ reporter' = [reporter EXCEPT !.stack = <<ReportMessageFrame(msg, error)>>,
                                          !.output = <<>>]
    /\ returned' = <<>>
    /\ UNCHANGED pc
    /\ ReporterOnly

\* the frame on top calls callee and will go on at line next when it returns;
\* with no room left for the frame the thread overflows its stack and the
\* process is aborted
Push(callee, next) ==
    IF Len(reporter.stack) < MaxStack
    THEN /\ reporter' = [reporter EXCEPT
                           !.stack = Append([@ EXCEPT ![Len(@)].at = next], callee)]
         /\ UNCHANGED <<pc, returned>>
    ELSE /\ pc' = "aborted"
         /\ UNCHANGED <<reporter, returned>>

\* the frame on top returns value; the outermost frame returns it to the caller
Pop(value, output) ==
    /\ reporter' = [reporter EXCEPT !.stack = SubSeq(@, 1, Len(@) - 1),
                                    !.value = value,
                                    !.output = output]
    /\ returned' = IF Len(reporter.stack) = 1 THEN <<value>> ELSE returned
    /\ UNCHANGED pc

\* one step of the frame on top: is_interactive, lines 49-52, and
\* report_message, lines 55-67
ReporterStep ==
    /\ pc = "reporter"
    /\ reporter.stack # <<>>
    /\ LET top == reporter.stack[Len(reporter.stack)] IN
       IF top.fn = "is_interactive"
       THEN IF top.at = 50
            THEN Push(ReportMessageFrame("str", FALSE), 51)
            ELSE Pop(reporter.is_interactive, reporter.output)
       ELSE IF top.at = 56
            THEN Push(IsInteractiveFrame, 57)
            ELSE Pop(FALSE,
                     Append(reporter.output,
                            [stream |-> Stream(reporter.value, top.error),
                             msg |-> top.msg]))
    /\ UNCHANGED call
    /\ ReporterOnly

NextReporter ==
    \/ SetIsInteractive
    \/ CallIsInteractive
    \/ CallReportMessage
    \/ ReporterStep

\* the thread that called keeps running
SpecReporter == InitReporter /\ [][NextReporter]_vars /\ WF_vars(NextReporter)

----------------------------------------------------------------------------
(* Builders (shared/packages.rs, shared/installer.rs) *)

\* an add_package_action that pushes the package whatever the variant is
AddPackageActionAnyShape(ps, package) ==
    [kind |-> "Ok",
     value |-> [ps EXCEPT !.actions.packages = Append(ps.actions.packages, package)]]

\* PackageSetBuilder::add_package_action
AddPackageAction(ps, package) ==
    IF ps.actions.shape = "packages"
    THEN [kind |-> "Ok",
          value |-> [ps EXCEPT !.actions.packages = Append(ps.actions.packages, package)]]
    ELSE [kind |-> "InvalidBuilderState", value |-> ps]

\* PackageSetBuilder::add_script_action
AddScriptAction(ps, kind) ==
    IF ps.actions.shape = "scripts"
    THEN [kind |-> "Ok",
          value |-> [ps EXCEPT !.actions.scripts = ps.actions.scripts \cup {kind}]]
    ELSE [kind |-> "InvalidBuilderState", value |-> ps]

\* the packages a PackageBuilder hands to the set builder
BuiltPackages == {PackageNamed("a"), ForPlatform(PackageNamed("a"), "linux")}

\* a PackageSetBuilder just made
InitBuilder ==
    /\ IdleRun
    /\ pc = "builder"
    /\ current \in Platforms
    /\ action = "install"
    /\ package_set = PackageSetNamed("a")
    /\ call = [fn |-> "named"]

\* a method of the builder: the value it leaves in the builder and what it
\* returns; before is the value of actions from before the call
BuilderCall(fn, value, kind) ==
    /\ pc = "builder"
    /\ call' = [fn |-> fn, before |-> package_set.actions]
    /\ package_set' = value
    /\ returned' = <<[kind |-> kind]>>
    /\ UNCHANGED <<current, reporter, registry_file, registry, repository_dir, repository,
                   action, group_filter, set_filter, warnings, pc, groups_todo,
                   sets_todo, group, packages_todo, links_todo, result, log_db,
                   executed, fs_ops, phases, visited, reported_done, log_file,
                   installed>>

BuilderPath == BuilderCall("path", [package_set EXCEPT !.path = "set.yml"], "Ok")

BuilderForPlatform ==
    \E platform \in Platforms :
       BuilderCall("for_platform", ForPlatform(package_set, platform), "Ok")

BuilderForLinuxOnly == BuilderCall("for_linux_only", ForLinuxOnly(package_set), "Ok")

BuilderForAnyPlatform ==
    BuilderCall("for_any_platform", ForAnyPlatform(package_set), "Ok")

BuilderEnvVar ==
    BuilderCall("env_var",
                [package_set EXCEPT !.env_vars = (<<"x">> :> <<"v">>) @@ @], "Ok")

BuilderRunBefore ==
    BuilderCall("run_before", [package_set EXCEPT !.run_before = TRUE], "Ok")

BuilderWithPackageActions ==
    BuilderCall("with_package_actions",
                [package_set EXCEPT !.actions = PackagesActions(<<>>)], "Ok")

BuilderPackageActions ==
    \E packages \in SeqsUpTo(BuiltPackages, 1) :
       BuilderCall("package_actions",
                   [package_set EXCEPT !.actions = PackagesActions(packages)], "Ok")

BuilderAddPackageAction ==
    /\ Len(package_set.actions.packages) < MaxPackages
    /\ \E package \in BuiltPackages :
          BuilderCall("add_package_action", AddPackageAction(package_set, package).value,
                      AddPackageAction(package_set, package).kind)

BuilderWithScriptActions ==
    BuilderCall("with_script_actions",
                [package_set EXCEPT !.actions = ScriptsActions({})], "Ok")

BuilderScriptActions ==
    \E scripts \in ScriptMaps :
       BuilderCall("script_actions",
                   [package_set EXCEPT !.actions = ScriptsActions(scripts)], "Ok")

BuilderAddScriptAction ==
    \E kind \in {"install", "update"} :
       BuilderCall("add_script_action", AddScriptAction(package_set, kind).value,
                   AddScriptAction(package_set, kind).kind)

BuilderEnvFile == BuilderCall("env_file", [package_set EXCEPT !.env_file = "env"], "Ok")

BuilderAddLinkFile ==
    BuilderCall("add_link_file",
                [package_set EXCEPT !.link_files = @ \cup {[src |-> "f1", tgt |-> "f1"]}],
                "Ok")

BuilderRunAfter ==
    BuilderCall("run_after", [package_set EXCEPT !.run_after = TRUE], "Ok")

\* serde_yaml::to_string on the built set and serde_yaml::from_str on the text
RoundTrip ==
    /\ pc = "builder"
    /\ call' = [fn |-> "from_str", before |-> package_set.actions]
    /\ returned' = <<PackageSetFromDocument(PackageSetToDocument(package_set))>>
    /\ UNCHANGED <<current, reporter, registry_file, registry, repository_dir, repository,
                   action, group_filter, set_filter, warnings, pc, groups_todo,
                   sets_todo, group, package_set, packages_todo, links_todo, result,
                   log_db, executed, fs_ops, phases, visited, reported_done, log_file,
                   installed>>

NextBuilder ==
    \/ BuilderPath
    \/ BuilderForPlatform
    \/ BuilderForLinuxOnly
    \/ BuilderForAnyPlatform
    \/ BuilderEnvVar
    \/ BuilderRunBefore
    \/ BuilderWithPackageActions
    \/ BuilderPackageActions
    \/ BuilderAddPackageAction
    \/ BuilderWithScriptActions
    \/ BuilderScriptActions
    \/ BuilderAddScriptAction
    \/ BuilderEnvFile
    \/ BuilderAddLinkFile
    \/ BuilderRunAfter
    \/ RoundTrip

SpecBuilder == InitBuilder /\ [][NextBuilder]_vars

----------------------------------------------------------------------------
(* What the properties speak of *)

\* execute returned an error
Failed == result \notin {"running", "Ok"}

\* the repository and the registry are loaded
Loaded == pc \notin {"open_repository", "open_registry"}

\* control is inside execute_package_set
InPackageSet == pc \in Range(PhaseOrder)

RECURSIVE IsSubSeq(_, _)
IsSubSeq(s, t) ==
    IF s = <<>> THEN TRUE
    ELSE IF t = <<>> THEN FALSE
    ELSE IF Head(s) = Head(t) THEN IsSubSeq(Tail(s), Tail(t))
    ELSE IsSubSeq(s, Tail(t))

Count(s, P(_)) == Len(SelectSeq(s, P))

\* a command of the packages phase, as the history record of its package
AsRecord(e) ==
    [group |-> visited[e.visit].group, set |-> visited[e.visit].package_set.name,
     package |-> e.package, installer |-> e.installer]

\* the installer commands run for packages, in order
PackageCommands == SelectSeq(executed, LAMBDA e : e.phase = "packages")

\* the installer commands run for packages that exited zero, in order
SuccessfulPackageCommands ==
    SelectSeq(executed, LAMBDA e : e.phase = "packages" /\ e.outcome = "zero")

----------------------------------------------------------------------------
(* C1 *)

\* C1: a history record is appended for a package only if the installer's
\* command for the action was executed for that package and exited zero: the
\* log is a subsequence of the successful package commands.
C1_RecordOnlyAfterSuccessfulCommand ==
    IsSubSeq(log_db,
             [k \in DOMAIN SuccessfulPackageCommands |->
                AsRecord(SuccessfulPackageCommands[k])])

----------------------------------------------------------------------------
(* C2 *)

PhaseRank(phase) ==
    CASE phase = "run_before" -> 1
      [] phase \in {"packages", "scripts"} -> 2
      [] phase = "env_file" -> 3
      [] phase = "link_files" -> 4
      [] phase = "run_after" -> 5

\* C2: the phases of a set run in the order run-before, action phase (packages
\* or scripts), env-file, link-files, run-after; a set's phases are contiguous;
\* no phase runs twice (the packages and link-files phases run once per package
\* and once per pair).
C2_PhasesInFixedOrder ==
    /\ \A i, j \in DOMAIN phases :
          i < j =>
            /\ phases[i].visit <= phases[j].visit
            /\ phases[i].visit = phases[j].visit =>
                 /\ PhaseRank(phases[i].phase) <= PhaseRank(phases[j].phase)
                 /\ PhaseRank(phases[i].phase) = PhaseRank(phases[j].phase) =>
                      /\ phases[i].phase = phases[j].phase
                      /\ phases[i].phase \in {"packages", "link_files"}
    /\ \A v \in DOMAIN visited :
          /\ Count(phases, LAMBDA x : x.visit = v /\ x.phase = "packages")
                <= Len(visited[v].package_set.actions.packages)
          /\ Count(phases, LAMBDA x : x.visit = v /\ x.phase = "link_files")
                <= Cardinality(visited[v].package_set.link_files)

\* a set ran all five phases, and execute returned Ok
C2_Witness ==
    /\ pc = "done"
    /\ result = "Ok"
    /\ {phases[k].phase : k \in DOMAIN phases} =
          {"run_before", "packages", "env_file", "link_files", "run_after"}

----------------------------------------------------------------------------
(* C3 *)

\* C3: a command that exits non-zero or cannot be launched fails the run; the
\* failing step removes nothing of the commands run, links made and records
\* written; and after the failure no phase runs and nothing changes.
C3_FailureAbortsWithoutRollback ==
    [][ /\ (executed' # executed /\ Last(executed').outcome # "zero") => Failed'
        /\ Failed' => /\ IsPrefix(log_db, log_db')
                      /\ IsPrefix(executed, executed')
                      /\ IsPrefix(fs_ops, fs_ops')
        /\ Failed => UNCHANGED <<log_db, executed, fs_ops, phases, visited>> ]_vars

\* the packages phase failed after a record was written, with the run-after
\* script still to run
C3_Witness ==
    /\ result = "CommandExecutionFailed"
    /\ Last(executed).phase = "packages"
    /\ log_db # <<>>
    /\ package_set.run_after

----------------------------------------------------------------------------
(* C4 *)

\* C4: when the package at hand has no installer under (package.platform(),
\* package.kind()), execute returns NoInstallerForKind at once, without a
\* command or a record for it; nothing is processed afterwards, and the records
\* written before stay.
C4_NoInstallerForKindAbortsRun ==
    [][ /\ ( /\ pc = "packages"
             /\ packages_todo # <<>>
             /\ <<IF Head(packages_todo).platform = None THEN current
                  ELSE Head(packages_todo).platform,
                  Head(packages_todo).kind>> \notin DOMAIN registry )
           => /\ result' = "NoInstallerForKind"
              /\ log_db' = log_db
              /\ executed' = executed
        /\ result = "NoInstallerForKind"
           => UNCHANGED <<pc, log_db, executed, fs_ops, phases, visited,
                          reported_done>> ]_vars

\* the second package has no installer, the record of the first is in the log
C4_Witness ==
    /\ result = "NoInstallerForKind"
    /\ Len(log_db) = 1
    /\ Len(packages_todo) = 1
    /\ ~reported_done

----------------------------------------------------------------------------
(* C5 *)

\* the groups the group filter selects, of the directory
SelectedGroupDirs ==
    {i \in DOMAIN repository_dir :
        group_filter \in {None, repository_dir[i].name}}

\* the group filter names no group of the repository
GroupFilterMisses == group_filter # None /\ SelectedGroupDirs = {}

\* the set filter names no set of the selected group(s)
SetFilterMisses ==
    /\ set_filter # None
    /\ SelectedGroupDirs # {}
    /\ \A i \in SelectedGroupDirs :
          \A k \in DOMAIN repository_dir[i].package_sets :
             repository_dir[i].package_sets[k].name # set_filter

\* C5: with a group filter that names no group, or a set filter that names no
\* set of the selected group, no set is executed, no command runs, no record is
\* written, and execute returns Ok after a warning.
C5_UnmatchedFilterIsSkipped ==
    (GroupFilterMisses \/ SetFilterMisses) =>
        /\ visited = <<>>
        /\ executed = <<>>
        /\ fs_ops = <<>>
        /\ log_db = <<>>
        /\ ~Failed
        /\ pc = "done" => (result = "Ok" /\ warnings # <<>> /\ reported_done)

\* two groups, the group filter names one of them, the set filter names none
\* of its sets: the run is over
C5_Witness ==
    /\ pc = "done"
    /\ Len(repository_dir) = 2
    /\ group_filter # None
    /\ ~GroupFilterMisses
    /\ SetFilterMisses
    /\ \E i \in SelectedGroupDirs : repository_dir[i].package_sets # <<>>

----------------------------------------------------------------------------
(* C6 *)

\* the package has a matching installer with a command template for the action
Served(p) ==
    /\ p.platform \in {None, current}
    /\ <<current, p.kind>> \in DOMAIN registry
    /\ registry[<<current, p.kind>>].kind = p.kind
    /\ registry[<<current, p.kind>>].platform \in {None, current}
    /\ action \in registry[<<current, p.kind>>].commands

\* every package of the repository is served
AllPackagesServed ==
    \A g \in DOMAIN repository :
       \A s \in DOMAIN repository[g].package_sets :
          LET ps == repository[g].package_sets[s] IN
          ps.actions.shape = "packages" =>
             \A k \in DOMAIN ps.actions.packages : Served(ps.actions.packages[k])

\* one record per package of the repository, in group, set and package order
ExpectedRecords ==
    Flatten([g \in DOMAIN repository |->
       Flatten([s \in DOMAIN repository[g].package_sets |->
          LET ps == repository[g].package_sets[s] IN
          [k \in DOMAIN ps.actions.packages |->
             [group |-> repository[g].name, set |-> ps.name,
              package |-> ps.actions.packages[k].name,
              installer |-> registry[<<current, ps.actions.packages[k].kind>>].name]]])])

\* C6: without filters, when every package has a matching installer with a
\* template for the action, the package commands and the records follow the
\* group, set and package order, one per package; when all commands exited
\* zero and execute returned Ok there is exactly one command and one record for
\* every package.
C6_OneCommandAndRecordPerPackage ==
    (Loaded /\ group_filter = None /\ set_filter = None /\ AllPackagesServed) =>
        /\ IsPrefix([k \in DOMAIN PackageCommands |-> AsRecord(PackageCommands[k])],
                    ExpectedRecords)
        /\ IsPrefix(log_db, ExpectedRecords)
        /\ (pc = "done" /\ result = "Ok") =>
              /\ [k \in DOMAIN PackageCommands |-> AsRecord(PackageCommands[k])]
                    = ExpectedRecords
              /\ \A k \in DOMAIN PackageCommands : PackageCommands[k].outcome = "zero"
              /\ log_db = ExpectedRecords

\* two sets with a package each were processed, every package served
C6_Witness ==
    /\ pc = "done"
    /\ result = "Ok"
    /\ group_filter = None
    /\ set_filter = None
    /\ AllPackagesServed
    /\ Len(visited) >= 2
    /\ Len(log_db) = 2
    /\ log_db[1] # log_db[2]

----------------------------------------------------------------------------
(* C7 *)

\* C7: while a script-shaped set is executed no record is appended to the
\* history; and when the set has no script for the action, its action phase
\* runs no command.
C7_ScriptSetRunsOnlyItsScript ==
    [][ (InPackageSet /\ package_set.actions.shape = "scripts") =>
           /\ log_db' = log_db
           /\ (pc \in {"packages", "scripts"} /\ action \notin package_set.actions.scripts)
                 => (executed' = executed /\ ~Failed') ]_vars

\* a set with only an uninstall script was executed for install: nothing ran
C7_Witness ==
    /\ pc = "done"
    /\ result = "Ok"
    /\ action = "install"
    /\ Len(visited) = 1
    /\ visited[1].package_set.actions.shape = "scripts"
    /\ visited[1].package_set.actions.scripts = {"uninstall"}
    /\ executed = <<>>
    /\ log_db = <<>>

----------------------------------------------------------------------------
(* C8 *)

\* the number of sets named `n` in the group directory `d`
SetsNamed(d, n) == Count(d.package_sets, LAMBDA x : x.name = n)

\* the number of sets named `n` of the group directory `d` that execute is to
\* visit
SetsSelected(d, n) ==
    IF group_filter \notin {None, d.name} THEN 0
    ELSE IF set_filter = None THEN SetsNamed(d, n)
    ELSE IF set_filter = n /\ SetsNamed(d, n) > 0 THEN 1
    ELSE 0

\* C8: the sets are executed in ascending order of group name and, within a
\* group, of set name; a filter restricts the run to the group or set it
\* names; and a run that returns Ok has executed every selected set once, and
\* one set only under a set filter.
C8_AscendingNameOrder ==
    /\ \A i, j \in DOMAIN visited :
          i < j =>
            \/ NameRank(visited[i].group) < NameRank(visited[j].group)
            \/ /\ visited[i].group = visited[j].group
               /\ NameRank(visited[i].package_set.name)
                     <= NameRank(visited[j].package_set.name)
    /\ \A k \in DOMAIN visited :
          /\ group_filter \in {None, visited[k].group}
          /\ set_filter \in {None, visited[k].package_set.name}
          /\ \E i \in DOMAIN repository_dir : repository_dir[i].name = visited[k].group
    /\ (pc = "done" /\ result = "Ok") =>
          \A i \in DOMAIN repository_dir : \A n \in Names :
             Count(visited, LAMBDA v : v.group = repository_dir[i].name
                                       /\ v.package_set.name = n)
                = SetsSelected(repository_dir[i], n)

\* the directory lists the groups and the sets of a group in descending order,
\* and all four sets were executed
C8_Witness ==
    /\ pc = "done"
    /\ result = "Ok"
    /\ group_filter = None
    /\ set_filter = None
    /\ Len(repository_dir) = 2
    /\ NameRank(repository_dir[1].name) > NameRank(repository_dir[2].name)
    /\ \A i \in DOMAIN repository_dir :
          /\ Len(repository_dir[i].package_sets) = 2
          /\ NameRank(repository_dir[i].package_sets[1].name)
                > NameRank(repository_dir[i].package_sets[2].name)
    /\ Len(visited) = 4

----------------------------------------------------------------------------
(* C9 *)

\* the links the sets executed call for: the env-file link in the set's
\* directory pointing at the declared path, and for each link-files pair a link
\* at the target pointing at the source in the repository
LinksCalledFor ==
    UNION {
       LET ps == visited[v].package_set IN
       (IF ps.env_file = None THEN {}
        ELSE {[at |-> [in |-> "set_dir", set |-> ps.name, file |-> ps.env_file],
               to |-> [in |-> "declared", set |-> ps.name, file |-> ps.env_file]]})
       \cup {[at |-> [in |-> "target", set |-> ps.name, file |-> lf.tgt],
              to |-> [in |-> "repository", set |-> ps.name, file |-> lf.src]] :
             lf \in ps.link_files} :
       v \in DOMAIN visited}

\* C9: a run that returned Ok has, for Install, created exactly the links
\* called for, each placed at the target and pointing at the source in the
\* repository, and removed nothing; for Update, removed exactly those link
\* paths and created nothing; for Uninstall and LinkFiles, touched no file.
C9_LinksPlacedAtTargets ==
    (pc = "done" /\ result = "Ok") =>
        LET created == {[at |-> fs_ops[k].at, to |-> fs_ops[k].to] :
                          k \in {x \in DOMAIN fs_ops : fs_ops[x].op = "symlink"}}
            removed == {fs_ops[k].at :
                          k \in {x \in DOMAIN fs_ops : fs_ops[x].op = "remove_file"}}
        IN /\ action = "install" =>
                /\ created = LinksCalledFor
                /\ removed = {}
                /\ Len(fs_ops) = Cardinality(LinksCalledFor)
           /\ action = "update" =>
                /\ created = {}
                /\ removed = {l.at : l \in LinksCalledFor}
                /\ Len(fs_ops) = Cardinality(LinksCalledFor)
           /\ action \in {"uninstall", "link"} => fs_ops = <<>>

----------------------------------------------------------------------------
(* C10 *)

\* C10: loading the registry does not fail; every installer the registry holds
\* is an entry of the document whose platform is absent or the current one and
\* whose if_exists path is absent or exists; no other entry is held.
C10_RegistryHoldsOnlyMatchingInstallers ==
    Loaded =>
       /\ pc = "execute" => result = "running"
       /\ \A i \in RegistryInstallers :
             /\ i \in Range(registry_file)
             /\ i.platform \in {None, current}
             /\ i.if_exists \in {None} \cup ExistingPaths
       /\ \A k \in DOMAIN registry_file :
             ( \/ registry_file[k].platform \notin {None, current}
               \/ registry_file[k].if_exists \notin {None} \cup ExistingPaths )
                => registry_file[k] \notin RegistryInstallers

\* a document with an entry for this platform whose guard path is missing and
\* an entry whose guard path exists was loaded: the second is held
C10_Witness ==
    /\ pc = "execute"
    /\ \E k \in DOMAIN registry_file :
          /\ registry_file[k].platform = current
          /\ registry_file[k].if_exists \notin {None} \cup ExistingPaths
    /\ \E k \in DOMAIN registry_file :
          /\ registry_file[k].if_exists = "/bin/present"
          /\ registry_file[k] \in RegistryInstallers

----------------------------------------------------------------------------
(* C11 *)

\* C11: on either platform, an installer of the document that declares no
\* platform and survives loading is held under (current platform, kind): the
\* lookup for a package of that kind without a platform constraint finds an
\* installer of that kind.
C11_PlatformlessInstallerUnderCurrentPlatform ==
    Loaded =>
       \A k \in DOMAIN registry_file :
          ( /\ registry_file[k].platform = None
            /\ registry_file[k].if_exists \in {None} \cup ExistingPaths )
             => /\ <<current, registry_file[k].kind>> \in DOMAIN registry
                /\ registry[<<current, registry_file[k].kind>>].kind
                      = registry_file[k].kind

----------------------------------------------------------------------------
(* C12 *)

\* the installers of the document that are kept at load, in document order
KeptInstallers ==
    SelectSeq(registry_file,
              LAMBDA i : /\ i.platform \in {None, current}
                         /\ i.if_exists \in {None} \cup ExistingPaths)

\* the key an installer normalises to: its platform, or the current one, and
\* its kind
NormalisedKey(i) == <<IF i.platform = None THEN current ELSE i.platform, i.kind>>

\* C12: when two of the installers kept at load normalise to the same key,
\* loading succeeds, the registry holds for every key the last kept installer
\* with that key, and a duplicate-key warning is emitted.
C12_DuplicateKeyLastWinsWithWarning ==
    ( /\ Loaded
      /\ \E i, j \in DOMAIN KeptInstallers :
            i < j /\ NormalisedKey(KeptInstallers[i]) = NormalisedKey(KeptInstallers[j]) )
       => /\ pc = "execute" => result = "running"
          /\ \A i \in DOMAIN KeptInstallers :
                /\ NormalisedKey(KeptInstallers[i]) \in DOMAIN registry
                /\ ( \A j \in DOMAIN KeptInstallers :
                        NormalisedKey(KeptInstallers[j]) = NormalisedKey(KeptInstallers[i])
                           => j <= i )
                      => registry[NormalisedKey(KeptInstallers[i])] = KeptInstallers[i]
          /\ DuplicateKeyMessage \in Range(warnings)

\* C13: package_action executes a command exactly when the installer and the
\* package both match the current platform, their kinds are equal and the
\* installer has a command for the action; with matching platform and kind
\* and no command it returns Ok and executes nothing; with matching platform
\* and different kinds it returns WrongInstallerForKind and executes nothing.
C13_PackageActionExecutesIffMatching ==
    (call.fn = "package_action" /\ returned # <<>>) =>
        LET platforms == /\ call.installer.platform \in {None, current}
                         /\ call.package.platform \in {None, current}
            kinds == call.installer.kind = call.package.kind
            template == action \in call.installer.commands
        IN /\ (executed # <<>>) <=> (platforms /\ kinds /\ template)
           /\ (platforms /\ kinds /\ ~template) =>
                 (returned = <<"Ok">> /\ executed = <<>>)
           /\ (platforms /\ ~kinds) =>
                 (returned = <<"WrongInstallerForKind">> /\ executed = <<>>)

\* package_action returned WrongInstallerForKind for an installer that has a
\* command for the action
C13_Witness ==
    /\ call.fn = "package_action"
    /\ action \in call.installer.commands
    /\ returned = <<"WrongInstallerForKind">>

\* C14: every command is executed by spawning the configured shell with the
\* arguments -c and the substituted command string, never as its own program
\* with its tokens as arguments.
C14_CommandsSpawnedThroughShell ==
    (call.fn = "execute_command" /\ executed # <<>>) =>
        /\ "shell" \in DOMAIN call.vars
        /\ executed[1].program = call.vars["shell"]
        /\ executed[1].args =
              <<"-c", TokensToString(ReplaceVariables(call.tokens, call.vars))>>

\* C15: a command that exits with a non-zero status and one whose program
\* cannot be launched both return CommandExecutionFailed with the program
\* name and the exit status when there is one; a zero exit returns Ok.
C15_FailuresYieldCommandExecutionFailed ==
    (call.fn \in {"execute_command", "edit"} /\ returned # <<>> /\ executed # <<>>) =>
        IF executed[1].outcome = "zero"
        THEN returned[1].kind = "Ok"
        ELSE /\ returned[1].kind = "CommandExecutionFailed"
             /\ returned[1].program = executed[1].program
             /\ returned[1].exit_status =
                   (IF executed[1].outcome = "launch_failed" THEN None
                    ELSE executed[1].outcome)

\* the placeholders of a string: string[i..j] is {{name}} with a name of one
\* or more name characters
IsPlaceholder(string, i, j) ==
    /\ j >= i + 4
    /\ string[i] = "{" /\ string[i + 1] = "{"
    /\ string[j - 1] = "}" /\ string[j] = "}"
    /\ \A k \in (i + 2)..(j - 2) : IsNameChar(string[k])

\* what the k-th character of the string contributes to the substituted
\* string: at the start of a placeholder the value of its name, or the name
\* when the map has none; inside a placeholder nothing; elsewhere itself
Contribution(string, replacements, k) ==
    IF \E j \in DOMAIN string : IsPlaceholder(string, k, j)
    THEN LET j == CHOOSE j \in DOMAIN string : IsPlaceholder(string, k, j)
             name == SubSeq(string, k + 2, j - 2)
         IN IF name \in DOMAIN replacements THEN replacements[name] ELSE name
    ELSE IF \E i, j \in DOMAIN string : IsPlaceholder(string, i, j) /\ i < k /\ k <= j
    THEN <<>>
    ELSE <<string[k]>>

AccumulatedVars(e) ==
    AddPackageSetActionVars(visited[e.visit].package_set, AddActionVars(DefaultVars))

\* C16: each key and each value of the env-vars of a package set is expanded
\* against the variables accumulated so far before it is added to the
\* variables of the set's run-before, action and run-after commands (the
\* entry package_name aside, which the package variables replace and the
\* run-after script does not get).
C16_EnvVarsExpandedBeforeAdded ==
    \A n \in DOMAIN executed :
       call.fn = None =>
          \A k \in DOMAIN visited[executed[n].visit].package_set.env_vars :
             LET key == VarStringReplace(k, AccumulatedVars(executed[n]))
                 value == VarStringReplace(
                              visited[executed[n].visit].package_set.env_vars[k],
                              AccumulatedVars(executed[n]))
             IN key # <<"package_name">> =>
                   /\ key \in DOMAIN executed[n].vars
                   /\ executed[n].vars[key] = value

\* C18: the run-after script of a package set gets variables without an entry
\* package_name, whatever the env-vars of the set declare and whichever
\* packages were processed.
C18_RunAfterWithoutPackageName ==
    \A n \in DOMAIN executed :
       (call.fn = None /\ executed[n].phase = "run_after") =>
          <<"package_name">> \notin DOMAIN executed[n].vars

\* a run-after script ran for a set that declares package_name among its
\* env-vars, after the command of a package of the set
C18_Witness ==
    \E n, m \in DOMAIN executed :
       /\ call.fn = None
       /\ executed[n].phase = "run_after"
       /\ <<"package_name">> \in DOMAIN visited[executed[n].visit].package_set.env_vars
       /\ m < n
       /\ executed[m].visit = executed[n].visit
       /\ executed[m].phase = "packages"
       /\ <<"package_name">> \in DOMAIN executed[m].vars

\* the rows a query returned
History == returned[1]

\* C19 as stated: the records come most recent first, so that a record
\* appended later never comes after one appended earlier; at most limit records
\* when limit > 0, and every record when limit = 0.
C19_LaterAppendedNeverAfterEarlier ==
    (call.fn = "installed_package_history" /\ returned # <<>>) =>
        /\ \A i, j \in DOMAIN History : i < j => History[i].rowid > History[j].rowid
        /\ call.limit > 0 => Len(History) <= call.limit
        /\ call.limit = 0 => Len(History) = Len(installed)

\* C19, amended: the records come in descending order of the date_time they
\* were logged with, so that a record appended later comes before one appended
\* earlier whenever its date_time is greater, and no record left out has a
\* greater date_time than one returned; each row is returned once at most; at
\* most limit records when limit > 0, and every record when limit = 0.
C19_HistoryNewestDateTimeFirst ==
    (call.fn = "installed_package_history" /\ returned # <<>>) =>
        /\ \A i \in DOMAIN History : installed[History[i].rowid] = History[i]
        /\ \A i, j \in DOMAIN History : i < j => History[i].rowid # History[j].rowid
        /\ \A i, j \in DOMAIN History :
              i < j => History[i].date_time >= History[j].date_time
        /\ \A i, j \in DOMAIN History :
              (History[i].rowid > History[j].rowid
               /\ History[i].date_time > History[j].date_time) => i < j
        /\ \A r \in DOMAIN installed :
              (\A i \in DOMAIN History : History[i].rowid # r) =>
                 \A i \in DOMAIN History : installed[r].date_time <= History[i].date_time
        /\ call.limit > 0 =>
              Len(History) = (IF Len(installed) < call.limit THEN Len(installed)
                              ELSE call.limit)
        /\ call.limit = 0 => Len(History) = Len(installed)

\* a query with a limit returned the two newest of three records, the one
\* appended last first
C19_Witness ==
    /\ call.fn = "installed_package_history"
    /\ returned # <<>>
    /\ Len(installed) = 3
    /\ call.limit = 2
    /\ Len(History) = 2
    /\ History[1].rowid = 3
    /\ History[1].date_time > History[2].date_time

\* C20: the history store is created when the first record is written and not
\* before: while no record was written, the store is absent.
C20_StoreCreatedOnFirstWrite ==
    log_file => (log_db # <<>> \/ installed # <<>>)

\* C24: for the current platform and an optional constraint, is_match is true
\* when the constraint is absent, and when it is present is true exactly when
\* it equals the current platform.
C24_PlatformIsMatch ==
    (call.fn = "is_match" /\ returned # <<>>) =>
        /\ call.other = None => returned = <<TRUE>>
        /\ call.other # None => returned = <<call.other = current>>

\* is_match was called without a constraint and returned true
C24_Witness ==
    /\ call.fn = "is_match"
    /\ call.other = None
    /\ returned = <<TRUE>>

\* C25: Name::from_str accepts a string exactly when it is not empty and each
\* character is alphanumeric or one of . + - _ @ /; the empty string and a
\* string with whitespace are refused with InvalidNameString; the text of an
\* accepted Name is the string it was made from.
C25_NameAcceptsAndRoundTrips ==
    (call.fn = "from_str" /\ returned # <<>>) =>
        LET accepted == /\ Len(call.s) > 0
                        /\ \A k \in 1..Len(call.s) :
                              call.s[k] \in {"a", "Z", "9", ".", "+", "-", "_", "@", "/"}
        IN /\ returned[1].kind = (IF accepted THEN "Ok" ELSE "InvalidNameString")
           /\ (call.s = <<>> \/ \E k \in 1..Len(call.s) : call.s[k] \in {" ", "\t"})
                 => returned[1].kind = "InvalidNameString"
           /\ Len(returned) = 2 => returned[2] = call.s

\* a name of several kinds of characters was accepted and written back
C25_Witness ==
    /\ call.fn = "from_str"
    /\ call.s = <<"a", "@", "9">>
    /\ Len(returned) = 2
    /\ returned[2] = <<"a", "@", "9">>

\* exactly one of packages() and scripts() is Some, and the other variant
\* holds nothing
OneShape(ps) ==
    /\ HasPackages(ps) # HasScripts(ps)
    /\ HasPackages(ps) => ps.actions.scripts = {}
    /\ HasScripts(ps) => ps.actions.packages = <<>>

\* C21: for every PackageSet, parsed or left by any sequence of builder
\* methods, exactly one of packages() and scripts() is present; and
\* add_package_action on a script-shaped set, like add_script_action on a
\* package-shaped set, returns InvalidBuilderState and leaves the actions as
\* they were.
C21_ActionsEitherPackagesOrScripts ==
    pc = "builder" =>
        /\ OneShape(package_set)
        /\ (call.fn = "from_str" /\ returned[1].kind = "Ok") => OneShape(returned[1].value)
        /\ (call.fn = "add_package_action" /\ call.before.shape = "scripts") =>
              (returned = <<[kind |-> "InvalidBuilderState"]>>
               /\ package_set.actions = call.before)
        /\ (call.fn = "add_script_action" /\ call.before.shape = "packages") =>
              (returned = <<[kind |-> "InvalidBuilderState"]>>
               /\ package_set.actions = call.before)

\* add_package_action was refused on a set that holds a script
C21_Witness ==
    /\ pc = "builder"
    /\ call.fn = "add_package_action"
    /\ call.before = ScriptsActions({"install"})
    /\ returned = <<[kind |-> "InvalidBuilderState"]>>

\* C23: for every PackageSet a PackageSetBuilder can build, a script-shaped set
\* with no scripts and a package-shaped set with no packages included, writing
\* the set to text and parsing the text gives a PackageSet equal to the first
\* (here: equal in every field that is written, for a set whose path was never
\* set).
C23_RoundTripYieldsEqualSet ==
    (pc = "builder" /\ call.fn = "from_str" /\ package_set.path = "") =>
        returned = <<[kind |-> "Ok", value |-> package_set]>>

\* C22: a package-set document with a field that the schema does not have, at
\* the top level, inside actions or inside a package entry, is rejected when
\* it is read.
C22_UnknownFieldsRejected ==
    (call.fn = "read" /\ returned # <<>> /\ call.unknown # None) =>
        returned[1].kind # "Ok"

\* C26: for_linux_only, on InstallerBuilder, PackageBuilder and
\* PackageSetBuilder alike, sets the platform of the built value to Linux.
C26_ForLinuxOnlySetsLinux ==
    (call.fn = "for_linux_only" /\ returned # <<>>) => returned[1].platform = "linux"

\* C27: a package whose explicit platform is not the current one is skipped
\* without an error: its turn in the loop runs no command and does not end the
\* run, and the loop goes on with the packages after it.
C27_OtherPlatformPackageSkipped ==
    [][ ( /\ pc = "packages"
          /\ packages_todo # <<>>
          /\ Head(packages_todo).platform \notin {None, current} )
        => /\ executed' = executed
           /\ result' = result
           /\ pc' = "packages"
           /\ packages_todo' = Tail(packages_todo) ]_vars

\* PackageSet::is_platform_match, lines 214-217
PackageSetIsPlatformMatch(ps) == IsMatch(current, ps.platform)

\* C30: a phase of a package set runs only when the platform of the set is
\* absent or the current one.
C30_SetPhasesOnlyOnMatchingPlatform ==
    \A k \in DOMAIN phases :
       PackageSetIsPlatformMatch(visited[phases[k].visit].package_set)

\* C28: a call of report_message ends after it wrote the message once, to
\* stdout or stderr when interactive and to the log at level info or error when
\* not; a call of is_interactive returns the value set last, false at the start.
C28_ReportMessageTerminates ==
    /\ [](( /\ call.fn = "report_message" /\ returned = <<>> )
            => <>( /\ call.fn = "report_message"
                   /\ returned # <<>>
                   /\ reporter.output =
                        <<[stream |-> Stream(reporter.is_interactive, call.error),
                           msg |-> call.msg]>> ))
    /\ [](( /\ call.fn = "is_interactive" /\ returned = <<>> )
            => <>( /\ call.fn = "is_interactive"
                   /\ returned = <<reporter.is_interactive>> ))

\* C29: when a phase of a set fails, execute returns the error at once: the
\* step that fails is the last one of the run, no set is visited after it, in
\* the same group or in a later one, and "Done." is not reported.
C29_PhaseFailureEndsRun ==
    [][ /\ (InPackageSet /\ executed' # executed /\ Last(executed').outcome # "zero")
              => Failed'
        /\ (InPackageSet /\ Failed')
              => (pc' = "done" /\ visited' = visited /\ ~reported_done')
        /\ Failed => (~reported_done /\ UNCHANGED <<visited, reported_done, result, pc>>)
      ]_vars

\* the run-before script of the first set of the first group failed, with one
\* more set of the group and one more group still to visit
C29_Witness ==
    /\ Failed
    /\ Len(visited) = 1
    /\ Len(sets_todo) > 1
    /\ Len(groups_todo) > 1

====
